---- MODULE Spec2Model ----
(***************************************************************************)
(* A model of the doc-mcp retrieval service:                               *)
(*   - the per-product MCP session pool and HTTP dispatch (mcp/src/http.ts)*)
(*   - the resumable indexer and the vector-store upsert (rag/indexer.ts,  *)
(*     shared/src/qdrant-client.ts)                                        *)
(*   - the sliding-window rate limiter (shared/rate-limiter.ts)            *)
(*   - the embedder's retry loop and its dynamic batching                  *)
(*     (shared/src/embedder.ts)                                            *)
(*   - hybrid search and its tools (rag/searcher.ts, protocol/tools)       *)
(*   - the document fetch tool (rag/searcher.ts getDocChunks)              *)
(*   - the chunkers (document/chunkers/*.ts)                               *)
(*   - the loop of splitProtected over a regular segment (chunkers/base.ts)*)
(* Each subsystem has its own specification over the shared variable list; *)
(* the variables of the other subsystems stay at their initial values.     *)
(***************************************************************************)
EXTENDS Integers, Sequences, FiniteSets, TLC

VARIABLES
    now,          \* Date.now() in milliseconds
    nextSweep,    \* time at which the setInterval cleanup timer fires next
    sessions,     \* product -> (session id -> SessionEntry)
    transports,   \* transport -> [state, product]
    expiredLog,   \* session ids logged as 'Session expired' by the sweeper
    lastRequestAt, \* history: product -> (live session id -> time of the latest request carrying it)
    req,          \* the request the handler has just served (NoRequest: none)
    resp,         \* the response it was answered with
    ipc,          \* where the embed command is: idle, a step of its run, or how it ended
    runs,         \* number of runs of the embed command started so far
    force,        \* the --force flag of the current run
    batchSize,    \* the indexer's batchSize
    collection,   \* the collection in the vector store: [exists, points]
    checkpoint,   \* lastProcessedId in the checkpoint file (NoCheckpoint: none)
    resumeFrom,   \* indexChunks' resumeFrom (also its skippedCount)
    idx,          \* the loop variable i of indexChunks
    successCount, \* indexChunks' successCount
    failedCount,  \* indexChunks' failedCount
    upAttempt,    \* attempt number inside withRetry
    delays,       \* the sleeps withRetry has taken in the current upsert call
    inStore,      \* history: chunk ids upserted since the collection was created
    ackedAtStart, \* history: the checkpoint the current run found at its start
    embedded,     \* history: chunk id -> completed embeds in the current run
    upserted,     \* history: chunk id -> applied upserts in the current run
    prevEmbedded, \* history: the same for the previous run
    prevUpserted,
    prevEnd,      \* history: how the previous run ended
    killedAt,     \* history: where the current run was killed
    clock,        \* Date.now() as the rate limiter reads it
    windowMs,     \* the limiter's window length
    rpmLimit,     \* requestsPerMinute
    tpmLimit,     \* tokensPerMinute
    rpm,          \* entries of the request window: <<[timestamp, weight]>>
    tpm,          \* entries of the token window
    call,         \* the limiter call just made and its outcome (NoCall: none)
    history,      \* history: every entry ever recorded
    epc,          \* where embedBatchWithRetry is: idle, try, sleep, returned, thrown
    embedCalls,   \* number of network batches started so far
    totalTokens,  \* estimated tokens of the current network batch
    attempt,      \* the attempt parameter of embedBatchWithRetry
    netCalls,     \* history: calls of client.embed made for the current batch
    sleeps,       \* history: the delays slept for the current batch
    lastError,    \* the error caught by the latest failed attempt
    thrown,       \* the error that reached the caller (NoError: none)
    embeddingDim, \* config.embeddingDim
    spc,          \* where search is: idle, embed, query, rerank, returned, thrown, done
    sreq,         \* the arguments of the current search: [caller, query, limit, useRerank]
    sconf,        \* the searcher's configuration
    detectedLang, \* detectLanguage(query)
    issued,       \* history: the vector-store queries issued by the current search
    results,      \* the InternalSearchResult list
    rerankState,  \* history: how the rerank step went
    warnings,     \* history: warnings logged by the current search
    response,     \* the SearchResponse returned
    toolOutcome,  \* what the caller of search was left with
    thrownBySearch, \* name of the error search rejected with ("-": none)
    fpc,          \* where the fetch tool is: idle, scroll, done
    storePoints,  \* the points of the collection: point id -> payload
    docId,        \* the doc_id argument of the fetch tool
    scrollResult, \* the points the scroll answered with
    docChunks,    \* what getDocChunks returned
    fetchOutcome, \* what the fetch tool left its caller with
    cpc,          \* where chunkDocuments is: idle, done
    cconf,        \* the ChunkerOptions: [chunkSize, minChunkSize]
    chunkerType,  \* the chunker created: markdown, typedoc, javadoc
    cdocs,        \* the documents handed to chunkDocuments
    allChunks,    \* the chunks it returned
    bpc,          \* embedBatch: "idle", "loop", "returned" or "thrown"
    texts,        \* the texts handed to embedBatch
    embedBatchSize, \* config.batchSize of the embedder
    nextText,     \* the number of texts the for loop has taken
    batch,        \* the network batch being filled
    batchTokens,  \* the estimated tokens of batch
    allResults,   \* the results collected so far
    sentBatches,  \* history: the batches handed to embedBatchWithRetry
    lpc,          \* the regular-text branch of splitProtected: "idle", "loop", "done"
    regular,      \* segmentText, a regular segment (no code block)
    split,        \* [chunks, currentChunk, remaining] of the while loop
    cuts          \* history: the calls of findBreakPoint, [text, maxPos, cutPoint]

httpVars == <<now, nextSweep, sessions, transports, expiredLog, lastRequestAt, req, resp>>

ghostVars == <<ackedAtStart, embedded, upserted, prevEmbedded, prevUpserted,
               prevEnd, killedAt>>

indexerVars == <<ipc, runs, force, batchSize, collection, checkpoint, resumeFrom,
                 idx, successCount, failedCount, upAttempt, delays, inStore,
                 ghostVars>>

limiterVars == <<clock, windowMs, rpmLimit, tpmLimit, rpm, tpm, call, history>>

embedVars == <<epc, embedCalls, totalTokens, attempt, netCalls, sleeps, lastError,
               thrown, embeddingDim>>

searchVars == <<spc, sreq, sconf, detectedLang, issued, results, rerankState,
                warnings, response, toolOutcome, thrownBySearch>>

fetcherVars == <<fpc, storePoints, docId, scrollResult, docChunks, fetchOutcome>>

chunkerVars == <<cpc, cconf, chunkerType, cdocs, allChunks>>

batcherVars == <<bpc, texts, embedBatchSize, nextText, batch, batchTokens, allResults, sentBatches>>

splitterVars == <<lpc, regular, split, cuts>>

vars == <<httpVars, indexerVars, limiterVars, embedVars, searchVars, fetcherVars, chunkerVars, batcherVars, splitterVars>>

notHttpVars == <<indexerVars, limiterVars, embedVars, searchVars, fetcherVars, chunkerVars, batcherVars, splitterVars>>

notIndexerVars == <<httpVars, limiterVars, embedVars, searchVars, fetcherVars, chunkerVars, batcherVars, splitterVars>>

notLimiterVars == <<httpVars, indexerVars, embedVars, searchVars, fetcherVars, chunkerVars, batcherVars, splitterVars>>

notEmbedVars == <<httpVars, indexerVars, limiterVars, searchVars, fetcherVars, chunkerVars, batcherVars, splitterVars>>

notSearchVars == <<httpVars, indexerVars, limiterVars, embedVars, fetcherVars, chunkerVars, batcherVars, splitterVars>>

notFetcherVars == <<httpVars, indexerVars, limiterVars, embedVars, searchVars, chunkerVars, batcherVars, splitterVars>>

notChunkerVars == <<httpVars, indexerVars, limiterVars, embedVars, searchVars, fetcherVars, batcherVars, splitterVars>>

notBatcherVars == <<httpVars, indexerVars, limiterVars, embedVars, searchVars, fetcherVars, chunkerVars, splitterVars>>

notSplitterVars == <<httpVars, indexerVars, limiterVars, embedVars, searchVars, fetcherVars, chunkerVars, batcherVars>>

(***************************************************************************)
(* Session pool and HTTP dispatch                                          *)
(***************************************************************************)

\* the products mounted by startServer, one handler (one session map) each
Products == {"A", "B"}

SESSION_TTL_MS == 30 * 60 * 1000

SESSION_CLEANUP_INTERVAL_MS == 5 * 60 * 1000

\* granularity of the clock in the session model: 5 minutes
HttpTickMs == 300 * 1000

\* transports (and MCP server instances) that can be created
MaxTransports == 2

\* clock horizon in ticks: a session born at time 0 is reaped at the horizon
MaxHttpTicks == (SESSION_TTL_MS + SESSION_CLEANUP_INTERVAL_MS) \div HttpTickMs

Transports == 1 .. MaxTransports

\* crypto.randomUUID() of transport t: each transport generates at most one
\* id and no two calls return the same id, so the id is named by t
SessionIdOf(t) == t

\* an id no transport ever generated ("deadbeef")
NeverIssued == MaxTransports + 1

\* the mcp-session-id request header: <<>> is an absent header (undefined),
\* <<0>> a header with the empty string as its value, <<v>> the value v
NoHeader == <<>>

EmptyHeader == <<0>>

Headers == {NoHeader, EmptyHeader} \cup {<<v>> : v \in 1 .. NeverIssued}

\* req.method is "POST", "GET" or "DELETE"; req.body is an initialize JSON-RPC
\* request ("initialize"), another JSON-RPC message ("call") or absent ("none")

isInitializeRequestLax(b) == b # "none"

isInitializeRequest(b) == b = "initialize"

\* JavaScript truthiness of `sessionId`: undefined and "" are falsy
HasSessionId(h) == h # NoHeader /\ h # EmptyHeader

NoRequest ==
    [product |-> "-", header |-> NoHeader, method |-> "-", body |-> "-",
     ok |-> FALSE]

NoResponse ==
    [status |-> 0, code |-> 0, sessionId |-> 0, transport |-> 0, created |-> 0]

jsonRpcError(httpStatus, code) ==
    [status |-> httpStatus, code |-> code, sessionId |-> 0, transport |-> 0,
     created |-> 0]

RouteInitializeFirst(p, h, b) ==
    IF HasSessionId(h) /\ h[1] \in DOMAIN sessions[p] THEN "forward"
    ELSE IF isInitializeRequest(b) THEN "initialize"
    ELSE IF HasSessionId(h) THEN "notfound"
    ELSE "bad"

\* the branch the handler takes for a request at product p
Route(p, h, b) ==
    IF HasSessionId(h) /\ h[1] \in DOMAIN sessions[p] THEN "forward"
    ELSE IF HasSessionId(h) /\ h[1] \notin DOMAIN sessions[p] THEN "notfound"
    ELSE IF ~HasSessionId(h) /\ isInitializeRequest(b) THEN "initialize"
    ELSE "bad"

OnCloseKeepsEntry(ss, p, sid) == ss

\* transport.onclose: sessions.delete(transport.sessionId)
OnClose(ss, p, sid) ==
    [ss EXCEPT ![p] = [s \in DOMAIN ss[p] \ {sid} |-> ss[p][s]]]

OnSessionInitializedSharedPool(p, sid, t) ==
    [q \in Products |->
        [s \in DOMAIN sessions[q] \cup {sid} |->
            IF s = sid THEN [transport |-> t, lastActivity |-> now]
            ELSE sessions[q][s]]]

OnSessionInitializedUnregistered(p, sid, t) == sessions

\* onsessioninitialized: sessions.set(sid, {transport, lastActivity, ...})
OnSessionInitialized(p, sid, t) ==
    [sessions EXCEPT ![p] =
        [s \in DOMAIN sessions[p] \cup {sid} |->
            IF s = sid THEN [transport |-> t, lastActivity |-> now]
            ELSE sessions[p][s]]]

RefreshedNever(p, sid) == sessions

\* entry.lastActivity = Date.now() on the entry found for a valid session id
Refreshed(p, sid) ==
    [sessions EXCEPT ![p][sid].lastActivity = now]

\* StreamableHTTPServerTransport.handleRequest on the transport of a
\* registered session.  ok: the request passes the transport's own header
\* checks (Accept, Content-Type, protocol version).  A DELETE closes the
\* transport, whose onclose handler removes the session.
ForwardRequest(p, h, m, b, ok) ==
    LET sid == h[1]
        t == sessions[p][sid].transport
        base == [status |-> 200, code |-> 0, sessionId |-> sid,
                 transport |-> t, created |-> 0]
    IN  IF ok /\ m = "DELETE"
        THEN /\ transports' = [transports EXCEPT ![t].state = "closed"]
             /\ sessions' = OnClose(Refreshed(p, sid), p, sid)
             /\ resp' = base
        ELSE /\ transports' = transports
             /\ sessions' = Refreshed(p, sid)
             /\ resp' = IF ~ok THEN [base EXCEPT !.status = 406, !.code = -32000]
                        ELSE IF m = "POST" /\ b = "initialize"
                             THEN [base EXCEPT !.status = 400, !.code = -32600]
                        ELSE IF m = "POST" /\ b = "none"
                             THEN [base EXCEPT !.status = 400, !.code = -32700]
                        ELSE base

\* new StreamableHTTPServerTransport + new MCPServer + connect, then
\* transport.handleRequest on the fresh transport: a POST that passes the
\* transport's checks initializes it (the id is generated and
\* onsessioninitialized runs); anything else is refused by the transport,
\* which stays connected, uninitialized and unregistered
InitializeRequest(p, m, ok) ==
    \E t \in Transports :
        /\ transports[t].state = "none"
        /\ \A u \in Transports : u < t => transports[u].state # "none"
        /\ IF ok /\ m = "POST"
           THEN /\ transports' =
                    [transports EXCEPT ![t] = [state |-> "initialized", product |-> p]]
                /\ sessions' = OnSessionInitialized(p, SessionIdOf(t), t)
                /\ resp' = [status |-> 200, code |-> 0,
                            sessionId |-> SessionIdOf(t), transport |-> t,
                            created |-> t]
           ELSE /\ transports' =
                    [transports EXCEPT ![t] = [state |-> "connected", product |-> p]]
                /\ sessions' = sessions
                /\ resp' = [status |-> IF ok THEN 400 ELSE 406, code |-> -32000,
                            sessionId |-> 0, transport |-> t, created |-> t]

\* history: the sessions in served have received a request at time now;
\* the record is kept for the sessions still in the maps live
Requested(served, live) ==
    [q \in Products |->
        [sid \in DOMAIN live[q] \cap
                    (DOMAIN lastRequestAt[q] \cup {sv[2] : sv \in {x \in served : x[1] = q}}) |->
            IF <<q, sid>> \in served THEN now ELSE lastRequestAt[q][sid]]]

\* the express handler createMcpHandler returns, for product p: what it
\* does to the session pool and what it answers
Handle(p, h, m, b, ok) ==
    /\ req = NoRequest
    /\ req' = [product |-> p, header |-> h, method |-> m, body |-> b, ok |-> ok]
    /\ CASE Route(p, h, b) = "forward" -> ForwardRequest(p, h, m, b, ok)
         [] Route(p, h, b) = "notfound" ->
                /\ resp' = jsonRpcError(404, -32001)
                /\ UNCHANGED <<sessions, transports>>
         [] Route(p, h, b) = "initialize" -> InitializeRequest(p, m, ok)
         [] OTHER ->
                /\ resp' = jsonRpcError(400, -32600)
                /\ UNCHANGED <<sessions, transports>>
    /\ UNCHANGED <<now, nextSweep, expiredLog>>
    /\ UNCHANGED notHttpVars

\* the handler, no request history kept
HandleRequest(p, h, m, b, ok) ==
    /\ Handle(p, h, m, b, ok)
    /\ UNCHANGED lastRequestAt

\* the handler, with the time of the request recorded for the session it
\* was forwarded to
HandleRequestLogged(p, h, m, b, ok) ==
    /\ Handle(p, h, m, b, ok)
    /\ lastRequestAt' =
        Requested(IF Route(p, h, b) = "forward" THEN {<<p, h[1]>>} ELSE {}, sessions')

ExpiredAfterTwoIntervals(p) ==
    {sid \in DOMAIN sessions[p] :
        now - sessions[p][sid].lastActivity >
            SESSION_TTL_MS + 2 * SESSION_CLEANUP_INTERVAL_MS}

\* the entries the sweeper evicts: now - entry.lastActivity > SESSION_TTL_MS
Expired(p) ==
    {sid \in DOMAIN sessions[p] :
        now - sessions[p][sid].lastActivity > SESSION_TTL_MS}

\* the setInterval callbacks of the handlers: close the transport of every
\* expired entry and delete it.  The timers of all products are created
\* together in startServer and fire together.
Reap ==
    /\ req = NoRequest
    /\ now = nextSweep
    /\ nextSweep' = now + SESSION_CLEANUP_INTERVAL_MS
    /\ transports' =
        [t \in Transports |->
            IF \E p \in Products : \E sid \in Expired(p) :
                    sessions[p][sid].transport = t
            THEN [transports[t] EXCEPT !.state = "closed"] ELSE transports[t]]
    /\ sessions' =
        [p \in Products |->
            [sid \in DOMAIN sessions[p] \ Expired(p) |-> sessions[p][sid]]]
    /\ expiredLog' = expiredLog \cup UNION {Expired(p) : p \in Products}
    /\ UNCHANGED <<now, req, resp>>
    /\ UNCHANGED notHttpVars

\* the sweep, no request history kept
Sweep ==
    /\ Reap
    /\ UNCHANGED lastRequestAt

\* the sweep, the request history of the reaped sessions dropped
SweepLogged ==
    /\ Reap
    /\ lastRequestAt' = Requested({}, sessions')

\* time passes; a due timer fires before the clock moves on
Tick ==
    /\ req = NoRequest
    /\ now < nextSweep
    /\ now < MaxHttpTicks * HttpTickMs
    /\ now' = now + HttpTickMs
    /\ UNCHANGED <<nextSweep, sessions, transports, expiredLog, lastRequestAt, req, resp>>
    /\ UNCHANGED notHttpVars

\* the response reaches the client; the handler serves the next event
Respond ==
    /\ req # NoRequest
    /\ req' = NoRequest
    /\ resp' = NoResponse
    /\ UNCHANGED <<now, nextSweep, sessions, transports, expiredLog, lastRequestAt>>
    /\ UNCHANGED notHttpVars

\* the requests tried: <<method, body, ok>>
RequestShapes ==
    {<<"POST", "initialize", TRUE>>, <<"POST", "initialize", FALSE>>,
     <<"POST", "call", TRUE>>, <<"POST", "none", TRUE>>,
     <<"GET", "none", TRUE>>, <<"GET", "initialize", TRUE>>,
     <<"DELETE", "none", TRUE>>, <<"DELETE", "none", FALSE>>}

Request ==
    \E p \in Products, h \in Headers, s \in RequestShapes :
        HandleRequest(p, h, s[1], s[2], s[3])

RequestLogged ==
    \E p \in Products, h \in Headers, s \in RequestShapes :
        HandleRequestLogged(p, h, s[1], s[2], s[3])

\* the state createMcpHandler and startServer leave behind
HttpIdle ==
    /\ now = 0
    /\ nextSweep = SESSION_CLEANUP_INTERVAL_MS
    /\ sessions = [p \in Products |-> <<>>]
    /\ transports = [t \in Transports |-> [state |-> "none", product |-> "-"]]
    /\ expiredLog = {}
    /\ lastRequestAt = [p \in Products |-> <<>>]
    /\ req = NoRequest
    /\ resp = NoResponse

(***************************************************************************)
(* Resumable indexer (rag/indexer.ts) over the vector store                *)
(* (shared/src/qdrant-client.ts)                                           *)
(***************************************************************************)

\* number of chunks handed to indexChunks
NumChunks == 4
\* largest batchSize the indexer is configured with
MaxBatchSize == 2
\* number of times the embed command is run
MaxRuns == 2

\* the chunk list (allChunks); position k holds a chunk with a distinct id
ChunkList == [k \in 1 .. NumChunks |-> 10 + k]

ChunkIds == {ChunkList[k] : k \in 1 .. NumChunks}

\* lastProcessedId: null (no file, or a file that does not parse)
NoCheckpoint == 0

Min(a, b) == IF a < b THEN a ELSE b

\* a point id drawn afresh in every run (randomUUID in place of the hash)
stringToUuidRandom(str) == (str * 7 + 3 + 16 * runs) % 64

\* the MD5-derived UUID of a chunk id: a fixed function of the string alone
stringToUuid(str) == (str * 7 + 3) % 64

\* chunks.findIndex(c => c.id === id): 0-based index of the first match, or -1
findIndex(id) ==
    IF \E k \in 1 .. NumChunks : ChunkList[k] = id
    THEN (CHOOSE k \in 1 .. NumChunks :
              ChunkList[k] = id /\ \A j \in 1 .. k - 1 : ChunkList[j] # id) - 1
    ELSE -1

\* resuming at the checkpointed chunk itself instead of the one after it
ResumeFromCheckpointIndex(cp) ==
    IF cp # NoCheckpoint /\ findIndex(cp) >= 0 THEN findIndex(cp) ELSE 0

\* the start index computed from the checkpoint by indexChunks
ResumeFrom(cp) ==
    IF cp # NoCheckpoint /\ findIndex(cp) >= 0 THEN findIndex(cp) + 1 ELSE 0

\* chunks.slice(i, i + batchSize), as 1-based positions
BatchPositions(i) == (i + 1) .. Min(i + batchSize, NumChunks)

BatchIds(i) == {ChunkList[k] : k \in BatchPositions(i)}

\* batch[batch.length - 1].id
LastChunkId(i) == ChunkList[Min(i + batchSize, NumChunks)]

NoPoints == [u \in {} |-> 0]

\* sdk.upsert: a point with an existing id is overwritten, a new id is added
UpsertPoints(points, ids) ==
    [u \in DOMAIN points \cup {stringToUuid(c) : c \in ids} |->
        IF \E c \in ids : stringToUuid(c) = u
        THEN CHOOSE c \in ids : stringToUuid(c) = u
        ELSE points[u]]

Bump(count, ids) == [c \in ChunkIds |-> IF c \in ids THEN count[c] + 1 ELSE count[c]]

ZeroCount == [c \in ChunkIds |-> 0]

Running == {"initCollection", "loadCheckpoint", "loop", "upsert", "save"}

\* a new process runs embedProduct(force)
IndexerStart(f) ==
    /\ ipc \in {"idle", "done", "failed", "killed"}
    /\ runs < MaxRuns
    /\ runs' = runs + 1
    /\ force' = f
    /\ ipc' = "initCollection"
    /\ prevEnd' = IF ipc = "killed" THEN killedAt ELSE ipc
    /\ killedAt' = "-"
    /\ prevEmbedded' = embedded
    /\ prevUpserted' = upserted
    /\ embedded' = ZeroCount
    /\ upserted' = ZeroCount
    /\ ackedAtStart' = checkpoint
    /\ resumeFrom' = 0
    /\ idx' = 0
    /\ successCount' = 0
    /\ failedCount' = 0
    /\ upAttempt' = 0
    /\ delays' = <<>>
    /\ UNCHANGED <<batchSize, collection, checkpoint, inStore>>
    /\ UNCHANGED notIndexerVars

\* initCollection(forceRecreate)
InitCollection ==
    /\ ipc = "initCollection"
    /\ LET exists == collection.exists
           recreate == ~exists \/ force
       IN /\ collection' = IF recreate THEN [exists |-> TRUE, points |-> NoPoints]
                           ELSE collection
          /\ inStore' = IF recreate THEN {} ELSE inStore
    /\ ipc' = "loadCheckpoint"
    /\ UNCHANGED <<runs, force, batchSize, checkpoint, resumeFrom, idx,
                   successCount, failedCount, upAttempt, delays>>
    /\ UNCHANGED ghostVars
    /\ UNCHANGED notIndexerVars

\* indexChunks up to the loop: loadCheckpoint and the resume index
LoadCheckpoint ==
    /\ ipc = "loadCheckpoint"
    /\ resumeFrom' = ResumeFrom(checkpoint)
    /\ idx' = ResumeFrom(checkpoint)
    /\ successCount' = 0
    /\ failedCount' = 0
    /\ ipc' = "loop"
    /\ UNCHANGED <<runs, force, batchSize, collection, checkpoint, inStore,
                   upAttempt, delays>>
    /\ UNCHANGED ghostVars
    /\ UNCHANGED notIndexerVars

\* indexBatch, first half: embedder.embedBatch(texts) returns the vectors
EmbedBatchOk ==
    /\ ipc = "loop" /\ idx < NumChunks
    /\ embedded' = Bump(embedded, BatchIds(idx))
    /\ upAttempt' = 1
    /\ delays' = <<>>
    /\ ipc' = "upsert"
    /\ UNCHANGED <<runs, force, batchSize, collection, checkpoint, inStore,
                   resumeFrom, idx, successCount, failedCount>>
    /\ UNCHANGED <<ackedAtStart, upserted, prevEmbedded, prevUpserted, prevEnd, killedAt>>
    /\ UNCHANGED notIndexerVars

\* a catch block that counts the failed batch and goes on with the next one
EmbedBatchFailGoesOn ==
    /\ ipc = "loop" /\ idx < NumChunks
    /\ failedCount' = failedCount + Cardinality(BatchIds(idx))
    /\ idx' = idx + batchSize
    /\ UNCHANGED <<ipc, runs, force, batchSize, collection, checkpoint, inStore,
                   resumeFrom, successCount, upAttempt, delays>>
    /\ UNCHANGED ghostVars
    /\ UNCHANGED notIndexerVars

\* embedBatch throws: the catch block counts the batch and rethrows
EmbedBatchFail ==
    /\ ipc = "loop" /\ idx < NumChunks
    /\ failedCount' = failedCount + Cardinality(BatchIds(idx))
    /\ ipc' = "failed"
    /\ UNCHANGED <<runs, force, batchSize, collection, checkpoint, inStore,
                   resumeFrom, idx, successCount, upAttempt, delays>>
    /\ UNCHANGED ghostVars
    /\ UNCHANGED notIndexerVars

\* qdrant.upsert acknowledged (wait: true); control returns to indexChunks,
\* which counts the batch before it starts writing the checkpoint
UpsertOk ==
    /\ ipc = "upsert"
    /\ collection' = [collection EXCEPT !.points = UpsertPoints(@, BatchIds(idx))]
    /\ inStore' = inStore \cup BatchIds(idx)
    /\ upserted' = Bump(upserted, BatchIds(idx))
    /\ successCount' = successCount + Cardinality(BatchIds(idx))
    /\ ipc' = "save"
    /\ UNCHANGED <<runs, force, batchSize, checkpoint, resumeFrom, idx,
                   failedCount, upAttempt, delays>>
    /\ UNCHANGED <<ackedAtStart, embedded, prevEmbedded, prevUpserted, prevEnd, killedAt>>
    /\ UNCHANGED notIndexerVars

\* a delay that does not grow with the attempt
RetryDelayConstant(n) == 1000

\* the delay withRetry sleeps after failed attempt number `attempt`
RetryDelay(n) == 1000 * n

withRetry_maxRetries == 3

\* one attempt of withRetry fails: sleep and retry, or rethrow on the last
UpsertFail ==
    /\ ipc = "upsert"
    /\ IF upAttempt >= withRetry_maxRetries
       THEN /\ failedCount' = failedCount + Cardinality(BatchIds(idx))
            /\ ipc' = "failed"
            /\ UNCHANGED <<upAttempt, delays>>
       ELSE /\ delays' = Append(delays, RetryDelay(upAttempt))
            /\ upAttempt' = upAttempt + 1
            /\ UNCHANGED <<ipc, failedCount>>
    /\ UNCHANGED <<runs, force, batchSize, collection, checkpoint, inStore,
                   resumeFrom, idx, successCount>>
    /\ UNCHANGED ghostVars
    /\ UNCHANGED notIndexerVars

\* saveCheckpoint(lastChunk.id) completes; the loop advances
SaveCheckpoint ==
    /\ ipc = "save"
    /\ checkpoint' = LastChunkId(idx)
    /\ idx' = idx + batchSize
    /\ ipc' = "loop"
    /\ UNCHANGED <<runs, force, batchSize, collection, inStore, resumeFrom,
                   successCount, failedCount, upAttempt, delays>>
    /\ UNCHANGED ghostVars
    /\ UNCHANGED notIndexerVars

\* saveCheckpoint throws (mkdir or writeFile fails): caught like a batch error
SaveCheckpointFail ==
    /\ ipc = "save"
    /\ failedCount' = failedCount + Cardinality(BatchIds(idx))
    /\ ipc' = "failed"
    /\ UNCHANGED <<runs, force, batchSize, collection, checkpoint, inStore,
                   resumeFrom, idx, successCount, upAttempt, delays>>
    /\ UNCHANGED ghostVars
    /\ UNCHANGED notIndexerVars

\* the loop is over: clearCheckpoint, then the statistics are returned
ClearCheckpoint ==
    /\ ipc = "loop" /\ idx >= NumChunks
    /\ checkpoint' = NoCheckpoint
    /\ ipc' = "done"
    /\ UNCHANGED <<runs, force, batchSize, collection, inStore, resumeFrom, idx,
                   successCount, failedCount, upAttempt, delays>>
    /\ UNCHANGED ghostVars
    /\ UNCHANGED notIndexerVars

\* where in the run the process is when it is killed
KillPoints ==
    {"initCollection", "loadCheckpoint", "embed", "upsert", "upsertApplied",
     "beforeSave", "duringSave", "beforeClear"}

\* the process is killed.  An upsert in flight may or may not have reached
\* the store; a checkpoint write in flight leaves a truncated file, which
\* loadCheckpoint reads as no checkpoint.
Kill(at) ==
    /\ ipc \in Running
    /\ at \in KillPoints
    /\ CASE at = "embed" -> ipc = "loop" /\ idx < NumChunks
         [] at = "beforeClear" -> ipc = "loop" /\ idx >= NumChunks
         [] at \in {"upsert", "upsertApplied"} -> ipc = "upsert"
         [] at \in {"beforeSave", "duringSave"} -> ipc = "save"
         [] OTHER -> ipc = at
    /\ IF at = "upsertApplied"
       THEN /\ collection' = [collection EXCEPT !.points = UpsertPoints(@, BatchIds(idx))]
            /\ inStore' = inStore \cup BatchIds(idx)
            /\ upserted' = Bump(upserted, BatchIds(idx))
       ELSE UNCHANGED <<collection, inStore, upserted>>
    /\ checkpoint' = IF at = "duringSave" THEN NoCheckpoint ELSE checkpoint
    /\ killedAt' = at
    /\ ipc' = "killed"
    /\ UNCHANGED <<runs, force, batchSize, resumeFrom, idx, successCount,
                   failedCount, upAttempt, delays>>
    /\ UNCHANGED <<ackedAtStart, embedded, prevEmbedded, prevUpserted, prevEnd>>
    /\ UNCHANGED notIndexerVars

\* a checkpoint left behind by a run over an older chunk list
StaleCheckpoint == 10 + NumChunks + 1

IndexerIdle ==
    /\ ipc = "idle" /\ runs = 0 /\ force = FALSE
    /\ collection = [exists |-> FALSE, points |-> NoPoints]
    /\ inStore = {}
    /\ resumeFrom = 0 /\ idx = 0 /\ successCount = 0 /\ failedCount = 0
    /\ upAttempt = 0 /\ delays = <<>>
    /\ ackedAtStart = NoCheckpoint
    /\ embedded = ZeroCount /\ upserted = ZeroCount
    /\ prevEmbedded = ZeroCount /\ prevUpserted = ZeroCount
    /\ prevEnd = "idle" /\ killedAt = "-"
    /\ batchSize \in 1 .. MaxBatchSize
    /\ checkpoint \in {NoCheckpoint, StaleCheckpoint}

(***************************************************************************)
(* Sliding-window rate limiter (shared/rate-limiter.ts)                    *)
(***************************************************************************)

\* largest requestsPerMinute the limiter is configured with
MaxRpmLimit == 2
\* largest token count of one call
MaxTokens == 2
\* number of entries recorded in one behaviour
MaxRecords == 3

\* the clock advances in steps of half a second
LimiterTickMs == 1000 \div 2

\* Date.now() when the limiter is constructed (positive, as wall-clock time is)
LimiterEpoch == 2 * LimiterTickMs

\* the clock is followed for this long, a little over the longest window
LimiterHorizon == LimiterEpoch + 6 * LimiterTickMs

\* windowMs: a whole number of seconds, and one that is not (the default of
\* 60 s is scaled down to 2 s)
WindowChoices == {4 * LimiterTickMs, 5 * LimiterTickMs}

\* timestamp of entries[0] when the window is empty
Undefined == -1

\* SlidingWindow.cleanup(now): keep the entries with timestamp > now - windowMs
cleanup(entries, t) == SelectSeq(entries, LAMBDA e : e.timestamp > t - windowMs)

RECURSIVE TotalWeight(_)
\* entries.reduce((sum, e) => sum + e.weight, 0)
TotalWeight(entries) ==
    IF entries = <<>> THEN 0
    ELSE Head(entries).weight + TotalWeight(Tail(entries))

\* SlidingWindow.getCount() at time t
getCount(entries, t) == TotalWeight(cleanup(entries, t))

\* SlidingWindow.getEarliestTimestamp() at time t
getEarliestTimestamp(entries, t) ==
    IF cleanup(entries, t) = <<>> THEN Undefined ELSE cleanup(entries, t)[1].timestamp

\* Math.ceil(x / d) for an integer x and a positive d
Ceil(x, d) == IF x >= 0 THEN (x + d - 1) \div d ELSE -((-x) \div d)

Max(a, b) == IF a > b THEN a ELSE b

\* getRetryAfter(window): the window is observed at t2, Date.now() read at t3
getRetryAfter(entries, t2, t3) ==
    LET earliest == getEarliestTimestamp(entries, t2)
    IN IF earliest = Undefined \/ earliest = 0
       THEN 0
       ELSE Max(0, Ceil(earliest + windowMs - t3, 1000))

\* a request ceiling that lets one more request through
RpmExceededLate(currentRpm) == currentRpm > rpmLimit

\* check: currentRpm >= this.rpmLimit
RpmExceeded(currentRpm) == currentRpm >= rpmLimit

\* a token ceiling that looks at the recorded tokens only
TpmExceededBefore(currentTpm, tokenCount) == currentTpm > tpmLimit

\* check: currentTpm + tokenCount > this.tpmLimit
TpmExceeded(currentTpm, tokenCount) == currentTpm + tokenCount > tpmLimit

\* which limit check(tokenCount) throws for at time t ("none": it returns)
Throws(tokenCount, t) ==
    IF RpmExceeded(getCount(rpm, t)) THEN "rpm"
    ELSE IF TpmExceeded(getCount(tpm, t), tokenCount) THEN "tpm"
    ELSE "none"

NoCall == [op |-> "-", tokens |-> 0, error |-> "-", limit |-> "-",
           retryAfter |-> 0, t2 |-> 0, t3 |-> 0]

\* a check that counts the request it refuses
CheckThrowsRecords(op, tokenCount, s1, s2) ==
    LET limit == Throws(tokenCount, clock)
        t2 == clock + s1
        t3 == clock + s1 + s2
    IN /\ limit # "none"
       /\ t3 <= LimiterHorizon
       /\ rpm' = Append(cleanup(rpm, clock), [timestamp |-> clock, weight |-> 1])
       /\ tpm' = cleanup(tpm, IF limit = "tpm" THEN t2 ELSE clock)
       /\ clock' = t3
       /\ call' = [op |-> op, tokens |-> tokenCount, error |-> "RateLimitError",
                   limit |-> limit,
                   retryAfter |-> getRetryAfter(IF limit = "rpm" THEN rpm ELSE tpm, t2, t3),
                   t2 |-> t2, t3 |-> t3]
       /\ UNCHANGED history

\* check(tokenCount) throws RateLimitError.  The counts are read at `clock`;
\* the clock may have moved on by s1 when getRetryAfter observes the window
\* and by s2 more when it reads Date.now().
CheckThrows(op, tokenCount, s1, s2) ==
    LET limit == Throws(tokenCount, clock)
        t2 == clock + s1
        t3 == clock + s1 + s2
    IN /\ limit # "none"
       /\ t3 <= LimiterHorizon
       /\ rpm' = cleanup(rpm, IF limit = "rpm" THEN t2 ELSE clock)
       /\ tpm' = cleanup(tpm, IF limit = "tpm" THEN t2 ELSE clock)
       /\ clock' = t3
       /\ call' = [op |-> op, tokens |-> tokenCount, error |-> "RateLimitError",
                   limit |-> limit,
                   retryAfter |-> getRetryAfter(IF limit = "rpm" THEN rpm ELSE tpm, t2, t3),
                   t2 |-> t2, t3 |-> t3]
       /\ UNCHANGED history

\* SlidingWindow.tryAdd(weight) at time t
tryAdd(entries, weight, t) == Append(cleanup(entries, t), [timestamp |-> t, weight |-> weight])

\* check(tokenCount)
Check(tokenCount, s1, s2) ==
    /\ call = NoCall
    /\ \/ CheckThrows("check", tokenCount, s1, s2)
       \/ /\ Throws(tokenCount, clock) = "none"
          /\ s1 = 0 /\ s2 = 0
          /\ rpm' = cleanup(rpm, clock)
          /\ tpm' = cleanup(tpm, clock)
          /\ call' = [NoCall EXCEPT !.op = "check", !.tokens = tokenCount, !.error = "none"]
          /\ UNCHANGED <<clock, history>>
    /\ UNCHANGED <<windowMs, rpmLimit, tpmLimit>>
    /\ UNCHANGED notLimiterVars

\* record(tokenCount)
Record(tokenCount) ==
    /\ call = NoCall
    /\ Len(history) < MaxRecords
    /\ rpm' = tryAdd(rpm, 1, clock)
    /\ tpm' = tryAdd(tpm, tokenCount, clock)
    /\ history' = Append(history, [timestamp |-> clock, weight |-> tokenCount])
    /\ call' = [NoCall EXCEPT !.op = "record", !.tokens = tokenCount, !.error = "none"]
    /\ UNCHANGED <<clock, windowMs, rpmLimit, tpmLimit>>
    /\ UNCHANGED notLimiterVars

\* checkAndRecord(tokenCount): check, then record unless check threw
CheckAndRecord(tokenCount, s1, s2) ==
    /\ call = NoCall
    /\ \/ CheckThrows("checkAndRecord", tokenCount, s1, s2)
       \/ /\ Throws(tokenCount, clock) = "none"
          /\ s1 = 0 /\ s2 = 0
          /\ Len(history) < MaxRecords
          /\ rpm' = tryAdd(rpm, 1, clock)
          /\ tpm' = tryAdd(tpm, tokenCount, clock)
          /\ history' = Append(history, [timestamp |-> clock, weight |-> tokenCount])
          /\ call' = [NoCall EXCEPT !.op = "checkAndRecord", !.tokens = tokenCount,
                                    !.error = "none"]
          /\ UNCHANGED clock
    /\ UNCHANGED <<windowMs, rpmLimit, tpmLimit>>
    /\ UNCHANGED notLimiterVars

\* the call returns (or its error reaches the caller)
Return ==
    /\ call # NoCall
    /\ call' = NoCall
    /\ UNCHANGED <<clock, rpm, tpm, history, windowMs, rpmLimit, tpmLimit>>
    /\ UNCHANGED notLimiterVars

\* time passes between calls
LimiterTick ==
    /\ call = NoCall
    /\ clock < LimiterHorizon
    /\ clock' = clock + LimiterTickMs
    /\ UNCHANGED <<call, rpm, tpm, history, windowMs, rpmLimit, tpmLimit>>
    /\ UNCHANGED notLimiterVars

\* new RateLimiter(config)
LimiterIdle ==
    /\ clock = LimiterEpoch
    /\ rpm = <<>> /\ tpm = <<>>
    /\ history = <<>>
    /\ call = NoCall
    /\ windowMs \in WindowChoices
    /\ rpmLimit \in 1 .. MaxRpmLimit
    /\ tpmLimit = MaxTokens + 1

(***************************************************************************)
(* Embedder retry loop (shared/src/embedder.ts)                            *)
(***************************************************************************)

\* number of network batches handed to embedBatchWithRetry in one behaviour
MaxEmbedCalls == 2

\* config.maxRetries ?? 3
maxRetries == 3

\* config.retryDelay ?? 1000
retryDelay == 1000

\* embeddingDim of the configured model (modelDefaults)
EmbeddingDims == {1024, 1536}

\* the vector lengths the API is seen to answer with besides the right one:
\* none at all (embeddings[idx] missing) and a wrong length
WrongLengths == {0, 1500}

MismatchText == "Embedding dimension mismatch: expected %, got %"

\* error.message of the failures of client.embed
NetworkMessages ==
    {"Request timeout", "read ECONNRESET", "Status code: 500",
     "Status code: 429", "Status code: 504", "Status code: 400",
     "Status code: 401", "Status code: 422"}

ErrorOf(name, text, expected, got) ==
    [name |-> name, text |-> text, expected |-> expected, got |-> got]

NoError == ErrorOf("-", "-", 0, 0)

\* a RateLimitError thrown by the limiter
RateLimited == ErrorOf("RateLimitError", "Rate limit exceeded", 0, 0)

\* the substrings isRetryableError looks for
RetryableNeedles == {"timeout", "econnreset", "econnrefused", "529", "500", "502", "503"}

\* message.toLowerCase().includes(needle) for the fixed part of a message
TextIncludes(text, needle) ==
    <<text, needle>> \in {<<"Request timeout", "timeout">>,
                          <<"read ECONNRESET", "econnreset">>,
                          <<"Status code: 500", "500">>}

\* the number a three-digit needle spells
NeedleValue(needle) ==
    CASE needle = "529" -> 529 [] needle = "500" -> 500
      [] needle = "502" -> 502 [] needle = "503" -> 503 [] OTHER -> -1

RECURSIVE Pow(_, _)
Pow(b, e) == IF e = 0 THEN 1 ELSE b * Pow(b, e - 1)

\* the decimal digits of n include the three digits of the needle
DigitsInclude(n, needle) ==
    /\ NeedleValue(needle) >= 0
    /\ \E k \in 0 .. 3 :
        /\ n \div Pow(10, k) >= 100
        /\ (n \div Pow(10, k)) % 1000 = NeedleValue(needle)

\* message.includes(needle), the interpolated lengths included
Includes(error, needle) ==
    \/ TextIncludes(error.text, needle)
    \/ /\ error.text = MismatchText
       /\ DigitsInclude(error.expected, needle) \/ DigitsInclude(error.got, needle)

\* isRetryableError(error)
isRetryableError(error) ==
    \/ error.name = "RateLimitError"
    \/ /\ error.name = "Error"
       /\ \E needle \in RetryableNeedles : Includes(error, needle)

\* a retry test that lets the last attempt retry too
ShouldRetryThroughLast(error) == attempt <= maxRetries /\ isRetryableError(error)

\* shouldRetry = attempt < this.config.maxRetries && isRetryable
ShouldRetry(error) == attempt < maxRetries /\ isRetryableError(error)

\* delay = this.config.retryDelay * Math.pow(2, attempt - 1)
Backoff(n) == retryDelay * Pow(2, n - 1)

\* the RateLimitError checkAndRecord(totalTokens) throws now: it carries the
\* retryAfter of the window that refused
ThrownByLimiter ==
    [retryAfter |->
        getRetryAfter(IF Throws(totalTokens, clock) = "rpm" THEN rpm ELSE tpm,
                      clock, clock)] @@ RateLimited

\* a catch block that wraps whatever it throws
CatchWrapsAll(error) ==
    /\ lastError' = error
    /\ IF attempt < maxRetries /\ isRetryableError(error)
       THEN /\ epc' = "sleep"
            /\ thrown' = NoError
       ELSE /\ epc' = "thrown"
            /\ thrown' = [error EXCEPT !.name = "ApiError"]

\* the catch block of embedBatchWithRetry: sleep and retry, or throw
\* (a RateLimitError as it is, anything else wrapped in an ApiError)
Catch(error) ==
    /\ lastError' = error
    /\ IF ShouldRetry(error)
       THEN /\ epc' = "sleep"
            /\ thrown' = NoError
       ELSE /\ epc' = "thrown"
            /\ thrown' = IF error.name = "RateLimitError" THEN error
                         ELSE [error EXCEPT !.name = "ApiError"]

\* embedBatch hands one network batch of tokenCount tokens to
\* embedBatchWithRetry(batch, attempt = 1)
EmbedStart(tokenCount) ==
    /\ epc \in {"idle", "returned", "thrown"}
    /\ embedCalls < MaxEmbedCalls
    /\ embedCalls' = embedCalls + 1
    /\ totalTokens' = tokenCount
    /\ attempt' = 1
    /\ netCalls' = 0
    /\ sleeps' = <<>>
    /\ lastError' = NoError
    /\ thrown' = NoError
    /\ epc' = "try"
    /\ UNCHANGED embeddingDim
    /\ UNCHANGED notEmbedVars

\* one attempt in which rateLimiter.checkAndRecord throws before the network
AttemptRateLimited ==
    /\ epc = "try"
    /\ Throws(totalTokens, clock) # "none"
    /\ rpm' = cleanup(rpm, clock)
    /\ tpm' = cleanup(tpm, clock)
    /\ Catch(ThrownByLimiter)
    /\ UNCHANGED <<embedCalls, totalTokens, attempt, netCalls, sleeps, embeddingDim>>
    /\ UNCHANGED <<clock, windowMs, rpmLimit, tpmLimit, call, history>>
    /\ UNCHANGED <<httpVars, indexerVars, searchVars, fetcherVars, chunkerVars, batcherVars, splitterVars>>

\* what client.embed does: "ok", an error message, or a vector length
NetworkOutcomes == {"ok"} \cup NetworkMessages \cup {"wrong length"}

\* one attempt that passes the limiter and calls client.embed
AttemptNetwork(outcome, got) ==
    /\ epc = "try"
    /\ Throws(totalTokens, clock) = "none"
    /\ rpm' = tryAdd(rpm, 1, clock)
    /\ tpm' = tryAdd(tpm, totalTokens, clock)
    /\ history' = Append(history, [timestamp |-> clock, weight |-> totalTokens])
    /\ netCalls' = netCalls + 1
    /\ CASE outcome = "ok" ->
                /\ epc' = "returned"
                /\ UNCHANGED <<lastError, thrown>>
         [] outcome = "wrong length" ->
                Catch(ErrorOf("Error", MismatchText, embeddingDim, got))
         [] OTHER -> Catch(ErrorOf("Error", outcome, 0, 0))
    /\ UNCHANGED <<embedCalls, totalTokens, attempt, sleeps, embeddingDim>>
    /\ UNCHANGED <<clock, windowMs, rpmLimit, tpmLimit, call>>
    /\ UNCHANGED <<httpVars, indexerVars, searchVars, fetcherVars, chunkerVars, batcherVars, splitterVars>>

\* await this.sleep(delay); return this.embedBatchWithRetry(texts, attempt + 1)
Sleep ==
    /\ epc = "sleep"
    /\ sleeps' = Append(sleeps, Backoff(attempt))
    /\ clock' = clock + Backoff(attempt)
    /\ attempt' = attempt + 1
    /\ epc' = "try"
    /\ UNCHANGED <<embedCalls, totalTokens, netCalls, lastError, thrown, embeddingDim>>
    /\ UNCHANGED <<windowMs, rpmLimit, tpmLimit, rpm, tpm, call, history>>
    /\ UNCHANGED <<httpVars, indexerVars, searchVars, fetcherVars, chunkerVars, batcherVars, splitterVars>>

\* new VoyageEmbedder(config)
EmbedderIdle ==
    /\ epc = "idle"
    /\ embedCalls = 0 /\ totalTokens = 0
    /\ attempt = 0 /\ netCalls = 0
    /\ sleeps = <<>>
    /\ lastError = NoError /\ thrown = NoError
    /\ embeddingDim \in EmbeddingDims

(***************************************************************************)
(* Search (rag/searcher.ts, mcp/src/rag/language-detect.ts) and the search *)
(* tool (mcp/src/protocol/tools/search.ts, tool-wrapper.ts)                *)
(***************************************************************************)

\* number of points the collection can answer a query with
MaxCandidates == 3
\* largest limit a caller asks for
MaxLimit == 3
\* the scores run over 1 .. MaxScore
MaxScore == 2

\* franc is not consulted below this trimmed length
MIN_DETECTION_LENGTH == 10

QueryOf(text, length, lang, franc) ==
    [text |-> text, length |-> length, lang |-> lang, franc |-> franc]

\* the queries tried: the text (Chinese text is written here in pinyin, one
\* syllable per character), its trimmed length in characters, the language it
\* is written in, and the code franc gives for it
Queries ==
    {QueryOf("tiao jian ge shi", 4, "zh", "cmn"),
     QueryOf("ru he zai biao ge zhong she zhi tiao jian ge shi gui ze", 14, "zh", "cmn"),
     QueryOf("pivot", 5, "en", "eng"),
     QueryOf("how to set conditional formatting", 33, "en", "eng"),
     QueryOf("comment fusionner des cellules", 30, "fr", "fra"),
     QueryOf("", 0, "-", "und")}

\* LANG_MAP[langCode]; "-" when the code is not in the map
LANG_MAP(langCode) ==
    CASE langCode \in {"zho", "cmn", "lzh"} -> "zh"
      [] langCode = "eng" -> "en"
      [] langCode = "jpn" -> "ja"
      [] OTHER -> "-"

\* detectLanguage(text) with the default fallback 'en'
detectLanguage(q) ==
    IF q.length = 0 THEN "en"
    ELSE IF q.length < MIN_DETECTION_LENGTH THEN "en"
    ELSE IF LANG_MAP(q.franc) # "-" THEN LANG_MAP(q.franc) ELSE "en"

\* limit: undefined
NoLimit == 0

\* finalLimit = limit ?? this.rerankTopK
FinalLimit(r) == IF r.limit = NoLimit THEN sconf.rerankTopK ELSE r.limit

\* rerankUsed = useRerank !== false && !!this.reranker
RerankUsed(r) == r.useRerank # "false" /\ sconf.reranker

\* the limit handed to the vector store
PrefetchLimit(r) == IF RerankUsed(r) THEN sconf.prefetchLimit ELSE FinalLimit(r)

\* a query language test that sends every query to the hybrid query
UseBm25Always(lang) == TRUE

\* useBm25 = detectedLang === this.docLanguage
UseBm25(lang) == lang = sconf.docLanguage

\* sequences of scores of length n that never increase
SortedScores(n) ==
    {s \in [1 .. n -> 1 .. MaxScore] : \A i \in 1 .. n - 1 : s[i] >= s[i + 1]}

\* what the vector store answers a query of the given limit with: at most
\* that many points, best score first (mapQdrantResults keeps the order)
CandidateLists(lim) ==
    UNION {{[i \in 1 .. n |-> [id |-> i, score |-> s[i], source |-> "fusion"]] :
                s \in SortedScores(n)} : n \in 0 .. Min(lim, MaxCandidates)}

\* results.slice(0, n) for n >= 0
Slice(res, n) == SubSeq(res, 1, Min(n, Len(res)))

RECURSIVE Insert(_, _)
\* insert r after the entries of the sorted list that score at least as high
Insert(sorted, r) ==
    IF sorted = <<>> THEN <<r>>
    ELSE IF Head(sorted).score >= r.score THEN <<Head(sorted)>> \o Insert(Tail(sorted), r)
    ELSE <<r>> \o sorted

\* a rerank that keeps the order of the API's answer
SortByScoreUnsorted(res) == res

RECURSIVE SortByScore(_)
\* .sort((a, b) => b.score - a.score): stable, best score first
SortByScore(res) ==
    IF res = <<>> THEN <<>>
    ELSE Insert(SortByScore(SubSeq(res, 1, Len(res) - 1)), res[Len(res)])

\* the data of a rerank answer over n documents asked for top_k = k: k
\* distinct indices, each with a relevance score
RerankData(n, k) ==
    {d \in [1 .. k -> [index : 1 .. n, relevance_score : 1 .. MaxScore]] :
        \A i, j \in 1 .. k : i # j => d[i].index # d[j].index}

\* VoyageReranker.rerank, the API having answered with data
Reranked(documents, data) ==
    SortByScore([i \in 1 .. Len(data) |->
        [id |-> documents[data[i].index].id,
         score |-> data[i].relevance_score,
         source |-> "rerank"]])

\* results.map((r, i) => ({ rank: i + 1, ... })) over the truncated list
SearchResults(res) ==
    [i \in 1 .. Len(res) |-> [rank |-> i, chunk_id |-> res[i].id, score |-> res[i].score]]

NoSearchResponse ==
    [results |-> <<>>, rerank_used |-> FALSE, fusion_mode |-> "-",
     detected_lang |-> "-", doc_language |-> "-"]

\* the SearchResponse returned by search
SearchResponseOf(res) ==
    [results |-> SearchResults(Slice(res, FinalLimit(sreq))),
     rerank_used |-> RerankUsed(sreq),
     fusion_mode |-> IF UseBm25(detectedLang) THEN "rrf" ELSE "dense_only",
     detected_lang |-> detectedLang,
     doc_language |-> sconf.docLanguage]

NoSearch == [caller |-> "-", query |-> QueryOf("", 0, "-", "und"), limit |-> 0,
             useRerank |-> "-"]

NoOutcome == [kind |-> "-", error |-> "-", resultCount |-> 0]

\* what VoyageReranker.rerank returns when its try block throws
RerankCaughtEmpty(documents) == <<>>

\* catch: log the warning and return the documents as they came
RerankCaught(documents) == documents

\* the errors the embedder and the vector-store client throw
SearchFailures == {"ApiError", "RateLimitError", "Error"}

\* search(query, limit, useRerank) is called: by the search tool (which
\* fills in default_limit and always passes true) or directly; the language
\* is detected and the query embedding requested
Search(caller, q, lim, useRerank) ==
    /\ spc = "idle"
    /\ caller = "tool" => useRerank = "true" /\ lim # NoLimit
    /\ sreq' = [caller |-> caller, query |-> q, limit |-> lim, useRerank |-> useRerank]
    /\ detectedLang' = detectLanguage(q)
    /\ issued' = <<>>
    /\ rerankState' = "none"
    /\ warnings' = 0
    /\ response' = NoSearchResponse
    /\ toolOutcome' = NoOutcome
    /\ thrownBySearch' = "-"
    /\ spc' = "embed"
    /\ UNCHANGED <<sconf, results>>
    /\ UNCHANGED notSearchVars

\* this.embedder.embed(query) returns the dense vector
EmbedQueryOk ==
    /\ spc = "embed"
    /\ spc' = "query"
    /\ UNCHANGED <<sreq, sconf, detectedLang, issued, results, rerankState, warnings,
                   response, toolOutcome, thrownBySearch>>
    /\ UNCHANGED notSearchVars

\* this.embedder.embed(query) throws: search rejects with that error
EmbedQueryFail(err) ==
    /\ spc = "embed"
    /\ thrownBySearch' = err
    /\ spc' = "thrown"
    /\ UNCHANGED <<sreq, sconf, detectedLang, issued, results, rerankState, warnings,
                   response, toolOutcome>>
    /\ UNCHANGED notSearchVars

\* the vector-store query search issues: queryHybrid or queryDense
IssuedQuery ==
    IF UseBm25(detectedLang)
    THEN [kind |-> "hybrid", limit |-> PrefetchLimit(sreq), threshold |-> FALSE]
    ELSE [kind |-> "dense", limit |-> PrefetchLimit(sreq), threshold |-> TRUE]

\* the query is answered; without a rerank step (none configured, not asked
\* for, or nothing to rerank) the response is built at once
QueryOk ==
    /\ spc = "query"
    /\ \E cands \in CandidateLists(PrefetchLimit(sreq)) :
        /\ results' = cands
        /\ IF RerankUsed(sreq) /\ cands # <<>>
           THEN /\ spc' = "rerank"
                /\ UNCHANGED <<rerankState, response>>
           ELSE /\ spc' = "returned"
                /\ rerankState' = IF RerankUsed(sreq) THEN "empty" ELSE "skipped"
                /\ response' = SearchResponseOf(cands)
    /\ issued' = Append(issued, IssuedQuery)
    /\ UNCHANGED <<sreq, sconf, detectedLang, warnings, toolOutcome, thrownBySearch>>
    /\ UNCHANGED notSearchVars

\* the vector-store query throws: search rejects with that error
QueryFail(err) ==
    /\ spc = "query"
    /\ issued' = Append(issued, IssuedQuery)
    /\ thrownBySearch' = err
    /\ spc' = "thrown"
    /\ UNCHANGED <<sreq, sconf, detectedLang, results, rerankState, warnings,
                   response, toolOutcome>>
    /\ UNCHANGED notSearchVars

\* the rerank API answers with data for top_k = min(rerankTopK, n) documents
RerankOk ==
    /\ spc = "rerank"
    /\ \E data \in RerankData(Len(results), Min(sconf.rerankTopK, Len(results))) :
        /\ results' = Reranked(results, data)
        /\ response' = SearchResponseOf(Reranked(results, data))
    /\ rerankState' = "ok"
    /\ spc' = "returned"
    /\ UNCHANGED <<sreq, sconf, detectedLang, issued, warnings, toolOutcome,
                   thrownBySearch>>
    /\ UNCHANGED notSearchVars

\* the ways the rerank call fails: fetch rejects, the status is not 2xx, or
\* the answer has no data
RerankFailures == {"network", "status", "nodata"}

\* the rerank call fails: caught inside rerank, a warning is logged
RerankFail(why) ==
    /\ spc = "rerank"
    /\ results' = RerankCaught(results)
    /\ rerankState' = why
    /\ warnings' = warnings + 1
    /\ response' = SearchResponseOf(RerankCaught(results))
    /\ spc' = "returned"
    /\ UNCHANGED <<sreq, sconf, detectedLang, issued, toolOutcome, thrownBySearch>>
    /\ UNCHANGED notSearchVars

\* the caller of search resumes.  The search tool runs inside
\* withToolLogging: the response becomes the tool's content, an error is
\* logged and thrown on as it is.
ToolWrapper ==
    /\ spc \in {"returned", "thrown"}
    /\ toolOutcome' =
        IF spc = "returned"
        THEN [kind |-> "content", error |-> "-", resultCount |-> Len(response.results)]
        ELSE [kind |-> "throws", error |-> thrownBySearch, resultCount |-> 0]
    /\ spc' = "done"
    /\ UNCHANGED <<sreq, sconf, detectedLang, issued, results, rerankState, warnings,
                   response, thrownBySearch>>
    /\ UNCHANGED notSearchVars

\* new RagSearcher(config)
SearcherIdle ==
    /\ spc = "idle"
    /\ sreq = NoSearch
    /\ sconf \in [docLanguage : {"zh", "en"}, reranker : BOOLEAN,
                   rerankTopK : {MaxLimit - 1}, prefetchLimit : {MaxCandidates}]
    /\ detectedLang = "-"
    /\ issued = <<>>
    /\ results = <<>>
    /\ rerankState = "none"
    /\ warnings = 0
    /\ response = NoSearchResponse
    /\ toolOutcome = NoOutcome
    /\ thrownBySearch = "-"

(***************************************************************************)
(* Document fetch (RagSearcher.getDocChunks, protocol/tools/fetch.ts)      *)
(***************************************************************************)

\* number of points in the collection
MaxPoints == 3
\* MAX_DOC_CHUNKS, the limit of the scroll, scaled down from 100
MaxDocChunks == 2

PointIds == 1 .. MaxPoints

DocIds == {"a", "b"}

\* payload.chunk_index is absent
NoChunkIndex == -1

\* the payloads a point is stored with
Payloads == [doc_id : DocIds, chunk_index : {NoChunkIndex, 0, 1}]

\* payload.content of a point: one character, a different one for each point
ContentOf(id) == <<64 + id>>

\* the points with payload.doc_id = d
Matching(d) == {id \in PointIds : storePoints[id].doc_id = d}

\* this.qdrant.scroll(collection, {doc_id = d}, limit): at most limit of the
\* matching points, each once, in the order the store lists them
ScrollAnswers(d, limit) ==
    {pts \in [1 .. Min(limit, Cardinality(Matching(d))) -> Matching(d)] :
        \A i, j \in DOMAIN pts : i # j => pts[i] # pts[j]}

\* .map(p => ({ chunk_id, chunk_index: payload.chunk_index ?? 0, content }))
DocChunkOf(id) ==
    [chunk_id |-> id,
     chunk_index |-> IF storePoints[id].chunk_index = NoChunkIndex THEN 0
                     ELSE storePoints[id].chunk_index,
     content |-> ContentOf(id)]

RECURSIVE InsertByIndex(_, _)
\* insert c after the entries of the sorted list whose index is not larger
InsertByIndex(sorted, c) ==
    IF sorted = <<>> THEN <<c>>
    ELSE IF Head(sorted).chunk_index <= c.chunk_index
         THEN <<Head(sorted)>> \o InsertByIndex(Tail(sorted), c)
         ELSE <<c>> \o sorted

\* chunks left in the order of the scroll
SortByChunkIndexUnsorted(chunks) == chunks

RECURSIVE SortByChunkIndex(_)
\* .sort((a, b) => a.chunk_index - b.chunk_index): stable, smallest first
SortByChunkIndex(chunks) ==
    IF chunks = <<>> THEN <<>>
    ELSE InsertByIndex(SortByChunkIndex(SubSeq(chunks, 1, Len(chunks) - 1)),
                       chunks[Len(chunks)])

\* getDocChunks, the scroll having answered with pts
getDocChunks(pts) ==
    IF Len(pts) = 0 THEN <<>>
    ELSE SortByChunkIndex([i \in 1 .. Len(pts) |-> DocChunkOf(pts[i])])

\* the separator '\n\n'
Separator == <<10, 10>>

RECURSIVE Join(_, _)
\* strs.join(sep)
Join(strs, sep) ==
    IF strs = <<>> THEN <<>>
    ELSE IF Len(strs) = 1 THEN strs[1]
    ELSE strs[1] \o sep \o Join(Tail(strs), sep)

\* formatDocResponse(docId, chunks)
formatDocResponse(d, chunks) ==
    [doc_id |-> d,
     chunk_count |-> Len(chunks),
     full_content |-> Join([i \in 1 .. Len(chunks) |-> chunks[i].content], Separator)]

NoFetchOutcome == [kind |-> "-"]

\* the fetch tool is called with doc_id = d: getDocChunks starts the scroll
Fetch(d) ==
    /\ fpc = "idle"
    /\ docId' = d
    /\ fpc' = "scroll"
    /\ UNCHANGED <<storePoints, scrollResult, docChunks, fetchOutcome>>
    /\ UNCHANGED notFetcherVars

\* the scroll answers: getDocChunks returns the chunks, the handler formats
\* them and withToolLogging returns the content
ScrollOk ==
    /\ fpc = "scroll"
    /\ \E pts \in ScrollAnswers(docId, MaxDocChunks) :
        /\ scrollResult' = pts
        /\ docChunks' = getDocChunks(pts)
        /\ fetchOutcome' = [kind |-> "content",
                            response |-> formatDocResponse(docId, getDocChunks(pts)),
                            resultCount |-> Len(getDocChunks(pts))]
    /\ fpc' = "done"
    /\ UNCHANGED <<storePoints, docId>>
    /\ UNCHANGED notFetcherVars

\* the scroll throws: the error passes through getDocChunks, the handler and
\* withToolLogging
ScrollFail(err) ==
    /\ fpc = "scroll"
    /\ fetchOutcome' = [kind |-> "throws", error |-> err, resultCount |-> 0]
    /\ fpc' = "done"
    /\ UNCHANGED <<storePoints, docId, scrollResult, docChunks>>
    /\ UNCHANGED notFetcherVars

\* a collection holding some points, no fetch made yet
FetcherIdle ==
    /\ fpc = "idle"
    /\ storePoints \in [PointIds -> Payloads]
    /\ docId = "-"
    /\ scrollResult = <<>>
    /\ docChunks = <<>>
    /\ fetchOutcome = NoFetchOutcome

(***************************************************************************)
(* Chunkers (embed/src/document/chunkers/base.ts, document/chunkers/*.ts)  *)
(* A string is a sequence of characters, a character a one-character      *)
(* string; positions are counted from 0 as the code counts them.           *)
(***************************************************************************)

\* number of documents handed to one call of chunkDocuments
MaxDocs == 2

NLc == "\n"

NL == <<NLc>>

\* '\n\n'
NLNL == <<NLc, NLc>>

\* the backtick, written by its code point
BT == "U+0060"

\* the fence mark, three backticks
FENCE == <<BT, BT, BT>>

\* the ideographic full stop, written by its code point
IDEOGRAPHIC_STOP == <<"U+3002">>

\* \s
IsSpace(c) == c \in {" ", NLc}

\* \w
IsWord(c) ==
    c \in {"a", "b", "c", "d", "e", "f", "g", "h", "i", "j", "k", "l", "m", "n", "o",
           "p", "q", "r", "s", "t", "u", "v", "w", "x", "y", "z", "A", "B", "C", "D",
           "E", "F", "G", "H", "I", "J", "K", "L", "M", "N", "O", "P", "Q", "R", "S",
           "T", "U", "V", "W", "X", "Y", "Z", "0", "1", "2", "3", "4", "5", "6", "7",
           "8", "9", "_"}

SetMin(S) == CHOOSE x \in S : \A y \in S : x <= y

SetMax(S) == CHOOSE x \in S : \A y \in S : x >= y

\* s.slice(a, b)
StrSlice(s, a, b) ==
    LET n == Len(s)
        from == IF a < 0 THEN Max(n + a, 0) ELSE Min(a, n)
        to == IF b < 0 THEN Max(n + b, 0) ELSE Min(b, n)
    IN  IF from < to THEN SubSeq(s, from + 1, to) ELSE <<>>

\* s.slice(a)
StrFrom(s, a) == StrSlice(s, a, Len(s))

RECURSIVE TrimStart(_)
TrimStart(s) == IF s # <<>> /\ IsSpace(Head(s)) THEN TrimStart(Tail(s)) ELSE s

RECURSIVE TrimEnd(_)
\* s.trimEnd()
TrimEnd(s) ==
    IF s # <<>> /\ IsSpace(s[Len(s)]) THEN TrimEnd(SubSeq(s, 1, Len(s) - 1)) ELSE s

\* s.trim()
Trim(s) == TrimEnd(TrimStart(s))

\* p occurs in s at position i
MatchesAt(s, p, i) ==
    /\ i >= 0
    /\ i + Len(p) <= Len(s)
    /\ \A k \in 1 .. Len(p) : s[i + k] = p[k]

\* s.startsWith(p)
StartsWith(s, p) == MatchesAt(s, p, 0)

\* s.indexOf(p, from); -1 when there is none
IndexOf(s, p, from) ==
    LET hits == {i \in Max(from, 0) .. Len(s) - Len(p) : MatchesAt(s, p, i)}
    IN  IF hits = {} THEN -1 ELSE SetMin(hits)

\* s.lastIndexOf(p, from): a negative from counts as 0
LastIndexOf(s, p, from) ==
    LET hits == {i \in 0 .. Min(Max(from, 0), Len(s) - Len(p)) : MatchesAt(s, p, i)}
    IN  IF hits = {} THEN -1 ELSE SetMax(hits)

\* s.includes(p)
StrIncludes(s, p) == IndexOf(s, p, 0) >= 0

RECURSIVE SplitOn(_, _)
\* s.split(sep) for a non-empty separator
SplitOn(s, sep) ==
    LET i == IndexOf(s, sep, 0)
    IN  IF i < 0 THEN <<s>>
        ELSE <<StrSlice(s, 0, i)>> \o SplitOn(StrFrom(s, i + Len(sep)), sep)

RECURSIVE NewlineRun(_, _)
\* the position after the run of newlines that starts at i
NewlineRun(s, i) == IF i < Len(s) /\ s[i + 1] = NLc THEN NewlineRun(s, i + 1) ELSE i

RECURSIVE SplitOnBlankLines(_)
\* s.split(/\n\n+/)
SplitOnBlankLines(s) ==
    LET i == IndexOf(s, NLNL, 0)
    IN  IF i < 0 THEN <<s>>
        ELSE <<StrSlice(s, 0, i)>> \o SplitOnBlankLines(StrFrom(s, NewlineRun(s, i)))

RECURSIVE SortedSeq(_)
\* the members of a set of numbers, smallest first
SortedSeq(S) == IF S = {} THEN <<>> ELSE <<SetMin(S)>> \o SortedSeq(S \ {SetMin(S)})

\* the end of the line that holds position i
LineEndFrom(s, i) == IF IndexOf(s, NL, i) < 0 THEN Len(s) ELSE IndexOf(s, NL, i)

RECURSIVE HashRun(_, _)
\* number of '#' in a row from position i
HashRun(s, i) == IF i < Len(s) /\ s[i + 1] = "#" THEN 1 + HashRun(s, i + 1) ELSE 0

\* a header of run marks at position i: white space and more text follow
\* on the line
HeaderOfRun(s, i, run, lo, hi) ==
    /\ run \in lo .. hi
    /\ i + run < Len(s)
    /\ s[i + run + 1] = " "
    /\ LineEndFrom(s, i) >= i + run + 2

\* ^(#{lo,hi}\s+.+)$ with the flags g and m matches at position i.  The
\* documents tried have no line that is blank after its marks, so a match
\* stays on its line.
HeaderAt(s, i, lo, hi) ==
    /\ i = 0 \/ s[i] = NLc
    /\ HeaderOfRun(s, i, HashRun(s, i), lo, hi)

\* result.length > 0 ? result : [whole]
OrWhole(result, whole) == IF Len(result) > 0 THEN result ELSE <<whole>>

\* the section of the k-th header: the header line, '\n' and the text up
\* to the next header, trimmed
SectionAt(content, starts, k, lineEnd) ==
    Trim(StrSlice(content, starts[k], lineEnd) \o NL
            \o StrSlice(content, lineEnd,
                        IF k = Len(starts) THEN Len(content) ELSE starts[k + 1]))

\* the text before the first header, if it is not blank
LeadSection(lead) == IF lead # <<>> THEN <<lead>> ELSE <<>>

\* the sections, the positions of the headers known
SectionsAt(content, starts) ==
    OrWhole(LeadSection(Trim(IF starts = <<>> THEN content
                             ELSE StrSlice(content, 0, starts[1])))
                \o [k \in 1 .. Len(starts) |->
                        SectionAt(content, starts, k, LineEndFrom(content, starts[k]))],
            content)

\* splitByHeaders(content, '#{lo,hi}'): content.split(pattern) gives the text
\* before the first header, then each header followed by the text up to the
\* next one
splitByHeaders(content, lo, hi) ==
    SectionsAt(content,
               SortedSeq({i \in 0 .. Len(content) - 1 : HeaderAt(content, i, lo, hi)}))

\* extractHeader(section): the first line when it is a header, marks included
extractHeader(section) ==
    IF \E k \in 1 .. 6 : HeaderAt(section, 0, k, k)
    THEN StrSlice(section, 0, LineEndFrom(section, 0))
    ELSE <<>>

\* extractHeaderText(section): the first header line without its marks
extractHeaderText(section) ==
    IF extractHeader(section) = <<>> THEN <<>>
    ELSE Trim(StrFrom(extractHeader(section), HashRun(section, 0)))

\* the first separators findBreakPoint tries
simpleSeps == <<NLNL, NL, IDEOGRAPHIC_STOP>>

RECURSIVE DotBreak(_, _, _)
\* the loop over '.': a full stop counts when followed by white space or
\* by nothing
DotBreak(text, searchPos, maxPos) ==
    IF ~(2 * searchPos > maxPos) THEN maxPos
    ELSE LET pos == LastIndexOf(text, <<".">>, searchPos)
         IN  IF 2 * pos <= maxPos THEN maxPos
             ELSE IF pos + 1 >= Len(text) \/ IsSpace(text[pos + 2]) THEN pos + 1
             ELSE DotBreak(text, pos - 1, maxPos)

RECURSIVE SepBreak(_, _, _)
\* the loop over simpleSeps from the k-th on, then the loop over '.'
SepBreak(text, maxPos, k) ==
    IF k > Len(simpleSeps) THEN DotBreak(text, maxPos, maxPos)
    ELSE IF 2 * LastIndexOf(text, simpleSeps[k], maxPos) > maxPos
    THEN LastIndexOf(text, simpleSeps[k], maxPos) + Len(simpleSeps[k])
    ELSE SepBreak(text, maxPos, k + 1)

\* findBreakPoint(text, maxPos)
findBreakPoint(text, maxPos) == SepBreak(text, maxPos, 1)

\* fence + '\n' + body + '\n' + three backticks
Fenced(fence, body) == fence \o NL \o body \o NL \o FENCE

RECURSIVE HardCut(_, _, _, _)
\* the pieces of a part longer than the budget
HardCut(part, pos, fence, contentBudget) ==
    IF pos >= Len(part) THEN <<>>
    ELSE <<Fenced(fence, StrSlice(part, pos, pos + contentBudget))>>
            \o HardCut(part, pos + contentBudget, fence, contentBudget)

\* if (current) result.push(fence + '\n' + current.trimEnd() + '\n' + fence mark)
Flushed(st, fence) ==
    IF st.current # <<>> THEN Append(st.result, Fenced(fence, TrimEnd(st.current)))
    ELSE st.result

\* one turn of the loop of splitCodeBlock over the parts
CodePartStep(st, part, separator, fence, contentBudget) ==
    IF Len(part) > contentBudget
    THEN [result |-> Flushed(st, fence) \o HardCut(part, 0, fence, contentBudget),
          current |-> <<>>]
    ELSE IF Len(st.current) + Len(part) + Len(separator) > contentBudget
            /\ st.current # <<>>
    THEN [result |-> Flushed(st, fence), current |-> part \o separator]
    ELSE [result |-> st.result, current |-> st.current \o part \o separator]

RECURSIVE CodeParts(_, _, _, _, _)
\* the loop of splitCodeBlock over the parts, and the push after it
CodeParts(st, parts, separator, fence, contentBudget) ==
    IF parts = <<>>
    THEN IF Trim(st.current) # <<>> THEN Flushed(st, fence) ELSE st.result
    ELSE CodeParts(CodePartStep(st, Head(parts), separator, fence, contentBudget),
                   Tail(parts), separator, fence, contentBudget)

\* splitCodeBlock once the inner text is cut by blank lines: by single lines
\* when that gave one part only
SplitInner(codeBlock, fence, inner, byBlank) ==
    OrWhole(CodeParts([result |-> <<>>, current |-> <<>>],
                      IF Len(byBlank) <= 1 THEN SplitOn(inner, NL) ELSE byBlank,
                      IF Len(byBlank) > 1 THEN NLNL ELSE NL,
                      fence, cconf.chunkSize - (Len(fence) + 1 + 4)),
            codeBlock)

\* splitCodeBlock once the fence and the inner text are known
SplitFenced(codeBlock, fence, inner) ==
    SplitInner(codeBlock, fence, inner, SplitOnBlankLines(inner))

\* splitCodeBlock once the first newline is found
SplitFrom(codeBlock, firstNewline) ==
    SplitFenced(codeBlock,
                IF firstNewline > 0 THEN StrSlice(codeBlock, 0, firstNewline) ELSE FENCE,
                StrSlice(codeBlock, firstNewline + 1,
                         LastIndexOf(codeBlock, FENCE, Len(codeBlock))))

\* splitCodeBlock(codeBlock)
splitCodeBlock(codeBlock) == SplitFrom(codeBlock, IndexOf(codeBlock, NL, 0))

\* the position of the fence that closes the one at a; -1 when there is none
ClosingFence(text, a) == IF a < 0 THEN -1 ELSE IndexOf(text, FENCE, a + 3)

RECURSIVE CodeBlocksBetween(_, _, _)
\* the matches from the fence at a, closed at b, on
CodeBlocksBetween(text, a, b) ==
    IF a < 0 \/ b < 0 THEN <<>>
    ELSE <<[start |-> a, end |-> b + 3]>>
            \o CodeBlocksBetween(text, IndexOf(text, FENCE, b + 3),
                                 ClosingFence(text, IndexOf(text, FENCE, b + 3)))

\* the matches of the code block pattern (a fence, the shortest text, a
\* fence; flag g) from position pos on
CodeBlocks(text, pos) ==
    CodeBlocksBetween(text, IndexOf(text, FENCE, pos),
                      ClosingFence(text, IndexOf(text, FENCE, pos)))

\* the regular segment from pos up to position to, if any
RegularSegment(pos, to) ==
    IF pos < to THEN <<[start |-> pos, end |-> to, isCode |-> FALSE]>> ELSE <<>>

RECURSIVE Segments(_, _, _)
\* the regular segments and the code blocks of the text, in order
Segments(text, codeBlocks, pos) ==
    IF codeBlocks = <<>> THEN RegularSegment(pos, Len(text))
    ELSE RegularSegment(pos, Head(codeBlocks).start)
            \o <<[start |-> Head(codeBlocks).start, end |-> Head(codeBlocks).end,
                  isCode |-> TRUE]>>
            \o Segments(text, Tail(codeBlocks), Head(codeBlocks).end)

\* if (s.trim()) chunks.push(s.trim())
PushTrimmed(chunks, s) == IF Trim(s) # <<>> THEN Append(chunks, Trim(s)) ELSE chunks

RECURSIVE PushAllTrimmed(_, _)
PushAllTrimmed(chunks, strs) ==
    IF strs = <<>> THEN chunks
    ELSE PushAllTrimmed(PushTrimmed(chunks, Head(strs)), Tail(strs))

\* the cut of the regular text at cutPoint: the filled chunk is pushed
CutAt(st, remaining, cutPoint) ==
    [chunks |-> PushTrimmed(st.chunks, st.currentChunk \o StrSlice(remaining, 0, cutPoint)),
     currentChunk |-> <<>>,
     remaining |-> StrFrom(remaining, cutPoint)]

\* one turn of while (remaining)
RegularStep(st, spaceLeft) ==
    IF Len(st.remaining) <= spaceLeft
    THEN [chunks |-> st.chunks, currentChunk |-> st.currentChunk \o st.remaining,
          remaining |-> <<>>]
    ELSE CutAt(st, st.remaining, findBreakPoint(st.remaining, spaceLeft))

RECURSIVE SplitRegular(_)
\* while (remaining): fill the current chunk up to chunkSize, cut at a
\* break point
SplitRegular(st) ==
    IF st.remaining = <<>> THEN [chunks |-> st.chunks, currentChunk |-> st.currentChunk]
    ELSE SplitRegular(RegularStep(st, cconf.chunkSize - Len(st.currentChunk)))

\* a code block longer than this many chunk sizes is split into pieces
CODE_BLOCK_SPLIT_THRESHOLD == 3

\* twice CODE_BLOCK_SIZE_TOLERANCE = 1.5, to stay with whole numbers
CODE_BLOCK_SIZE_TOLERANCE_X2 == 2 + 1

\* a code block too long to stay whole: its pieces but the last are pushed,
\* the last becomes the current chunk
Exploded(chunks, codeChunks) ==
    [chunks |-> PushAllTrimmed(chunks, SubSeq(codeChunks, 1, Len(codeChunks) - 1)),
     currentChunk |-> codeChunks[Len(codeChunks)]]

\* one turn of the loop of splitProtected: a code block
CodeStep(st, segmentText) ==
    IF st.currentChunk # <<>>
       /\ 2 * (Len(st.currentChunk) + Len(segmentText))
            <= CODE_BLOCK_SIZE_TOLERANCE_X2 * cconf.chunkSize
    THEN [chunks |-> st.chunks, currentChunk |-> st.currentChunk \o segmentText]
    ELSE IF Len(segmentText) > cconf.chunkSize * CODE_BLOCK_SPLIT_THRESHOLD
    THEN Exploded(PushTrimmed(st.chunks, st.currentChunk), splitCodeBlock(segmentText))
    ELSE [chunks |-> PushTrimmed(st.chunks, st.currentChunk), currentChunk |-> segmentText]

\* one turn of the loop of splitProtected: regular text
TextStep(st, segmentText) ==
    IF Len(st.currentChunk) + Len(segmentText) <= cconf.chunkSize
    THEN [chunks |-> st.chunks, currentChunk |-> st.currentChunk \o segmentText]
    ELSE SplitRegular([chunks |-> st.chunks, currentChunk |-> st.currentChunk,
                       remaining |-> segmentText])

\* one turn of the loop of splitProtected
SegmentStep(st, isCode, segmentText) ==
    IF isCode THEN CodeStep(st, segmentText) ELSE TextStep(st, segmentText)

\* the push after the loop: the last chunk is kept from minChunkSize on
LastPushed(st, trimmed) ==
    IF trimmed # <<>> /\ Len(trimmed) >= cconf.minChunkSize
    THEN Append(st.chunks, trimmed)
    ELSE st.chunks

RECURSIVE SplitSegments(_, _, _)
\* the loop of splitProtected over the segments, and the push after it
SplitSegments(st, text, segments) ==
    IF segments = <<>> THEN LastPushed(st, Trim(st.currentChunk))
    ELSE SplitSegments(
            SegmentStep(st, Head(segments).isCode,
                        StrSlice(text, Head(segments).start, Head(segments).end)),
            text, Tail(segments))

\* splitProtected once the segments are known
SplitBySegments(text, segments) ==
    IF Len(segments) = 0 THEN <<text>>
    ELSE OrWhole(SplitSegments([chunks |-> <<>>, currentChunk |-> <<>>], text, segments),
                 text)

\* splitProtected(text)
splitProtected(text) ==
    IF Len(text) <= cconf.chunkSize THEN <<text>>
    ELSE SplitBySegments(text, Segments(text, CodeBlocks(text, 0), 0))

\* '\n\n---\n\n'
RULE ==
    <<NLc, NLc, "-", "-", "-", NLc, NLc>>

\* '_chunk'
ChunkSuffix ==
    <<"_", "c", "h", "u", "n", "k">>

DigitChars == <<"0", "1", "2", "3", "4", "5", "6", "7", "8", "9">>

RECURSIVE Digits(_)
\* the decimal digits of n >= 0
Digits(n) ==
    IF n < 10 THEN <<DigitChars[n + 1]>>
    ELSE Digits(n \div 10) \o <<DigitChars[(n % 10) + 1]>>

\* total_chunks not filled in yet
NoTotal == -1

\* createChunk(doc, chunkIndex, content)
createChunk(doc, chunkIndex, content) ==
    [id |-> doc.id \o ChunkSuffix \o Digits(chunkIndex),
     doc_id |-> doc.id,
     chunk_index |-> chunkIndex,
     content |-> content,
     total_chunks |-> NoTotal]

\* the state of a generator: the chunks yielded so far and chunkIndex
Generator == [out |-> <<>>, chunkIndex |-> 0]

\* yield createChunk(doc, chunkIndex, text) without chunkIndex++
YieldSameIndex(gen, doc, text) ==
    [out |-> Append(gen.out, createChunk(doc, gen.chunkIndex, text)),
     chunkIndex |-> gen.chunkIndex]

\* yield createChunk(doc, chunkIndex, text); chunkIndex++
Yield(gen, doc, text) ==
    [out |-> Append(gen.out, createChunk(doc, gen.chunkIndex, text)),
     chunkIndex |-> gen.chunkIndex + 1]

\* the header is put before a later text that starts with no mark (nor,
\* where fenceToo, with a fence)
WithHeader(text, i, header, fenceToo) ==
    IF /\ i > 1
       /\ header # <<>>
       /\ ~StartsWith(text, <<"#">>)
       /\ fenceToo => ~StartsWith(text, FENCE)
    THEN header \o NLNL \o text
    ELSE text

\* one turn of the loop over the texts: a text below minChunkSize is skipped
PieceStep(gen, doc, text, i, header, fenceToo) ==
    IF Len(Trim(text)) < cconf.minChunkSize THEN gen
    ELSE Yield(gen, doc, WithHeader(text, i, header, fenceToo))

RECURSIVE YieldPieces(_, _, _, _, _, _)
\* for (let i = 0; i < texts.length; i++), i counted from 1 here
YieldPieces(gen, doc, pieces, i, header, fenceToo) ==
    IF i > Len(pieces) THEN gen
    ELSE YieldPieces(PieceStep(gen, doc, pieces[i], i, header, fenceToo),
                     doc, pieces, i + 1, header, fenceToo)

RECURSIVE YieldSubSections(_, _, _, _)
\* for (const sub of subSections)
YieldSubSections(gen, doc, subSections, sectionHeader) ==
    IF subSections = <<>> THEN gen
    ELSE YieldSubSections(
            YieldPieces(gen, doc, splitProtected(Head(subSections)), 1, sectionHeader,
                        FALSE),
            doc, Tail(subSections), sectionHeader)

\* one turn of the loop over the h2 sections: a section that fits is
\* yielded whole unless below minChunkSize, a larger one is split by h3
\* and by size
SectionStep(gen, doc, section) ==
    IF Len(section) <= cconf.chunkSize
    THEN IF Len(Trim(section)) >= cconf.minChunkSize THEN Yield(gen, doc, section)
         ELSE gen
    ELSE YieldSubSections(gen, doc, splitByHeaders(section, 3, 3),
                          extractHeader(section))

RECURSIVE YieldSections(_, _, _)
\* for (const section of sections)
YieldSections(gen, doc, sections) ==
    IF sections = <<>> THEN gen
    ELSE YieldSections(SectionStep(gen, doc, Head(sections)), doc, Tail(sections))

\* MarkdownChunker.chunkDocument(doc)
markdownChunkDocument(doc) ==
    IF Len(doc.content) <= cconf.chunkSize
    THEN IF Len(Trim(doc.content)) >= cconf.minChunkSize
         THEN <<createChunk(doc, 0, doc.content)>>
         ELSE <<>>
    ELSE YieldSections(Generator, doc, splitByHeaders(doc.content, 2, 2)).out

\* TypeDocChunker.chunkDocs(doc): the same cascade
typedocChunkDocs(doc) ==
    IF Len(doc.content) <= cconf.chunkSize
    THEN IF Len(Trim(doc.content)) >= cconf.minChunkSize
         THEN <<createChunk(doc, 0, doc.content)>>
         ELSE <<>>
    ELSE YieldSections(Generator, doc, splitByHeaders(doc.content, 2, 2)).out

\* TypeDocChunker.chunkDemo(doc)
typedocChunkDemo(doc) ==
    IF Len(doc.content) <= cconf.chunkSize
    THEN <<createChunk(doc, 0, doc.content)>>
    ELSE YieldPieces(Generator, doc, splitProtected(doc.content), 1,
                     extractHeader(doc.content), TRUE).out

\* TypeDocChunker.chunkBySize(doc, header)
typedocChunkBySize(doc, header) ==
    YieldPieces(Generator, doc, splitProtected(doc.content), 1, header, FALSE).out

\* 'Content'
TocContent ==
    <<"C", "o", "n", "t", "e", "n", "t">>

\* 'Table of contents'
TocTableOfContents ==
    <<"T", "a", "b", "l", "e", " ", "o", "f", " ", "c", "o", "n", "t", "e",
      "n", "t", "s">>

\* 'Hierarchy'
TocHierarchy ==
    <<"H", "i", "e", "r", "a", "r", "c", "h", "y">>

TOC_HEADERS == {TocContent, TocTableOfContents, TocHierarchy}

\* /^## (.+)/ matches the line
IsH2Line(line) == StartsWith(line, <<"#", "#", " ">>) /\ Len(line) >= 4

\* the chunk text of a group: the header, a rule and the members; `always`
\* tells whether an empty header is written too
Combined(group, header, always) ==
    IF header # <<>> \/ always THEN header \o RULE \o Join(group, NLNL)
    ELSE Join(group, NLNL)

\* one turn of the grouping loop: the group is yielded when the member
\* would take it over the budget
GroupStep(st, doc, header, member, step) ==
    IF st.groupSize + Len(member) > step.budget /\ Len(st.group) > 0
    THEN [gen |-> Yield(st.gen, doc, Combined(st.group, header, step.always)),
          group |-> <<member>>,
          groupSize |-> Len(member) + step.pad]
    ELSE [gen |-> st.gen,
          group |-> Append(st.group, member),
          groupSize |-> st.groupSize + Len(member) + step.pad]

RECURSIVE YieldGroups(_, _, _, _, _)
\* the loop that gathers neighbouring members into chunks, and the yield
\* of the last group
YieldGroups(st, doc, header, members, step) ==
    IF members = <<>>
    THEN IF Len(st.group) > 0
         THEN Yield(st.gen, doc, Combined(st.group, header, step.always))
         ELSE st.gen
    ELSE YieldGroups(GroupStep(st, doc, header, Head(members), step), doc, header,
                     Tail(members), step)

NoGroup == [gen |-> Generator, group |-> <<>>, groupSize |-> 0]

\* m => m.trim().length >= this.minChunkSize
ValidMember(m) == Len(Trim(m)) >= cconf.minChunkSize

\* chunkApi once the valid members are known
typedocGroupMembers(doc, classHeader, validMembers) ==
    IF Len(validMembers) < 2 THEN typedocChunkBySize(doc, classHeader)
    ELSE YieldGroups(NoGroup, doc, classHeader, validMembers,
                     [budget |-> cconf.chunkSize - (Len(classHeader) + 10), pad |-> 2,
                      always |-> TRUE]).out

\* chunkApi once the lines that start the details are known
typedocFromDetails(doc, lines, classHeader, details) ==
    IF details = {} THEN typedocGroupMembers(doc, classHeader, <<>>)
    ELSE typedocGroupMembers(doc, classHeader,
            SelectSeq(splitByHeaders(Join(SubSeq(lines, SetMin(details), Len(lines)), NL),
                                     2, 3),
                      ValidMember))

\* chunkApi of a document longer than chunkSize, cut into lines
typedocApiLines(doc, lines) ==
    typedocFromDetails(doc, lines,
        IF StartsWith(lines[1], <<"#", " ">>) THEN lines[1] ELSE <<>>,
        {i \in 1 .. Len(lines) :
            /\ IsH2Line(lines[i])
            /\ Trim(StrFrom(lines[i], 3)) \notin TOC_HEADERS})

\* TypeDocChunker.chunkApi(doc)
typedocChunkApi(doc) ==
    IF Len(doc.content) <= cconf.chunkSize THEN <<createChunk(doc, 0, doc.content)>>
    ELSE typedocApiLines(doc, SplitOn(doc.content, NL))

\* TypeDocChunker.chunkDocument(doc)
typedocChunkDocument(doc) ==
    CASE doc.category = "api" -> typedocChunkApi(doc)
      [] doc.category = "demo" -> typedocChunkDemo(doc)
      [] OTHER -> typedocChunkDocs(doc)

HEADER_SCAN_MAX_LINES == 30

HEADER_FALLBACK_END == 15

MIN_METHODS_FOR_SPLIT == 3

\* '## Method Summary'
MethodSummary ==
    <<"#", "#", " ", "M", "e", "t", "h", "o", "d", " ", "S", "u", "m", "m",
      "a", "r", "y">>

\* '## Field Summary'
FieldSummary ==
    <<"#", "#", " ", "F", "i", "e", "l", "d", " ", "S", "u", "m", "m", "a",
      "r", "y">>

\* '## Method Details'
MethodDetails ==
    <<"#", "#", " ", "M", "e", "t", "h", "o", "d", " ", "D", "e", "t", "a",
      "i", "l", "s">>

\* '## Method Detail'
MethodDetail ==
    <<"#", "#", " ", "M", "e", "t", "h", "o", "d", " ", "D", "e", "t", "a",
      "i", "l">>

HEADER_END_MARKERS == {MethodSummary, FieldSummary}

DETAILS_MARKERS == {MethodDetails, MethodDetail}

\* the line from its mark on: after leading white space, an optional '+'
\* and more white space
FromMark(lead) == IF StartsWith(lead, <<"+">>) THEN TrimStart(Tail(lead)) ELSE lead

\* three marks, white space and a word character
IsMethodMark(rest) ==
    /\ StartsWith(rest, <<"#", "#", "#">>)
    /\ Len(rest) >= 5
    /\ IsSpace(rest[4])
    /\ TrimStart(StrFrom(rest, 3)) # <<>>
    /\ IsWord(Head(TrimStart(StrFrom(rest, 3))))

\* /^\s*\+?\s*###\s+\w+/ matches the line
IsMethodLine(line) == IsMethodMark(FromMark(TrimStart(line)))

\* JavaDocChunker.chunkBySize(doc)
javadocChunkBySize(doc) ==
    YieldPieces(Generator, doc, splitProtected(doc.content), 1, <<>>, FALSE).out

\* if (currentMethod.length > 0) methods.push(currentMethod.join('\n').trim())
MethodPushed(st) ==
    IF Len(st.currentMethod) > 0 THEN Append(st.methods, Trim(Join(st.currentMethod, NL)))
    ELSE st.methods

\* one turn of the loop that cuts the details into methods
MethodLineStep(st, line) ==
    IF IsMethodLine(line) THEN [methods |-> MethodPushed(st), currentMethod |-> <<line>>]
    ELSE [methods |-> st.methods, currentMethod |-> Append(st.currentMethod, line)]

RECURSIVE CollectMethods(_, _, _)
\* the loop from line i (counted from 1) on, and the push after it
CollectMethods(st, lines, i) ==
    IF i > Len(lines) THEN MethodPushed(st)
    ELSE CollectMethods(MethodLineStep(st, lines[i]), lines, i + 1)

\* a line holds one of the markers
HasMarker(line, markers) == \E m \in markers : StrIncludes(line, m)

\* the numbers (from 0) of the lines that hold a marker
MarkerLines(lines, markers) ==
    {i \in 0 .. Len(lines) - 1 : HasMarker(lines[i + 1], markers)}

\* headerEnd: the first line with an end marker if the scan reaches it,
\* else the fallback for a long document, else 0
HeaderEnd(lines, ends) ==
    IF ends # {} /\ SetMin(ends) <= HEADER_SCAN_MAX_LINES + 1 THEN SetMin(ends)
    ELSE IF Len(lines) > HEADER_SCAN_MAX_LINES + 1 THEN HEADER_FALLBACK_END
    ELSE 0

\* chunkApi once the methods are cut
javadocGroupMethods(doc, header, methods) ==
    IF Len(methods) < MIN_METHODS_FOR_SPLIT THEN javadocChunkBySize(doc)
    ELSE YieldGroups(NoGroup, doc, header, methods,
                     [budget |-> cconf.chunkSize, pad |-> 0, always |-> FALSE]).out

\* chunkApi once the lines that start the details are known; without
\* details the document is chunked by size
javadocFromDetails(doc, lines, header, details) ==
    IF details = {} THEN javadocGroupMethods(doc, header, <<>>)
    ELSE javadocGroupMethods(doc, header,
            CollectMethods([methods |-> <<>>, currentMethod |-> <<>>], lines,
                           SetMin(details) + 1))

\* chunkApi over the lines of the document
javadocApiLines(doc, lines) ==
    javadocFromDetails(doc, lines,
        Trim(Join(SubSeq(lines, 1, HeaderEnd(lines, MarkerLines(lines, HEADER_END_MARKERS))),
                  NL)),
        MarkerLines(lines, DETAILS_MARKERS))

\* JavaDocChunker.chunkApi(doc)
javadocChunkApi(doc) == javadocApiLines(doc, SplitOn(doc.content, NL))

\* JavaDocChunker.chunkDemo(doc)
javadocChunkDemo(doc) ==
    IF Len(doc.content) <= cconf.chunkSize
    THEN <<createChunk(doc, 0, doc.content)>>
    ELSE YieldPieces(Generator, doc, splitProtected(doc.content), 1,
                     extractHeader(doc.content), TRUE).out

RECURSIVE YieldSplitSections(_, _, _)
\* for (const section of sections) for (const text of splitProtected(section))
YieldSplitSections(gen, doc, sections) ==
    IF sections = <<>> THEN gen
    ELSE YieldSplitSections(
            YieldPieces(gen, doc, splitProtected(Head(sections)), 1, <<>>, FALSE),
            doc, Tail(sections))

\* JavaDocChunker.chunkDocs(doc)
javadocChunkDocs(doc) ==
    YieldSplitSections(Generator, doc, splitByHeaders(doc.content, 2, 3)).out

\* JavaDocChunker.chunkDocument(doc)
javadocChunkDocument(doc) ==
    CASE doc.category = "api" -> javadocChunkApi(doc)
      [] doc.category = "demo" -> javadocChunkDemo(doc)
      [] OTHER -> javadocChunkDocs(doc)

\* createChunker(type, options).chunkDocument(doc)
chunkDocument(type, doc) ==
    CASE type = "markdown" -> markdownChunkDocument(doc)
      [] type = "typedoc" -> typedocChunkDocument(doc)
      [] type = "javadoc" -> javadocChunkDocument(doc)

RECURSIVE chunkDocuments(_, _)
\* chunkDocuments(docs): the chunks of each document, total_chunks filled in
chunkDocuments(type, docs) ==
    IF docs = <<>> THEN <<>>
    ELSE LET ofDoc == chunkDocument(type, Head(docs))
             total == Len(ofDoc)
         IN  [i \in 1 .. total |-> [ofDoc[i] EXCEPT !.total_chunks = total]]
                \o chunkDocuments(type, Tail(docs))

\* a text shorter than any minChunkSize: 'ab'
TextTiny ==
    <<"a", "b">>

\* a text that fits one chunk: '## a\nbody.'
TextSmall ==
    <<"#", "#", " ", "a", NLc, "b", "o", "d", "y", ".">>

\* a short lead and three h2 sections: 'ab\n## a\ntext one.\n## b\nxy\n## c\nlonger text. and more.'
TextSections ==
    <<"a", "b", NLc, "#", "#", " ", "a", NLc, "t", "e", "x", "t", " ", "o",
      "n", "e", ".", NLc, "#", "#", " ", "b", NLc, "x", "y", NLc, "#", "#",
      " ", "c", NLc, "l", "o", "n", "g", "e", "r", " ", "t", "e", "x", "t",
      ".", " ", "a", "n", "d", " ", "m", "o", "r", "e", ".">>

\* a fenced block that holds a line starting with two marks: 
\* 'intro text\n[fence]\n## x\ncode\n[fence]\ntail.'
TextFencedHeader ==
    <<"i", "n", "t", "r", "o", " ", "t", "e", "x", "t", NLc, BT, BT, BT,
      NLc, "#", "#", " ", "x", NLc, "c", "o", "d", "e", NLc, BT, BT, BT,
      NLc, "t", "a", "i", "l", ".">>

\* a section of text, a small fenced block and text: 
\* '## a\nsome text. more text.\n[fence]\ncode\n[fence]\nend of it.'
TextCodeMix ==
    <<"#", "#", " ", "a", NLc, "s", "o", "m", "e", " ", "t", "e", "x", "t",
      ".", " ", "m", "o", "r", "e", " ", "t", "e", "x", "t", ".", NLc, BT,
      BT, BT, NLc, "c", "o", "d", "e", NLc, BT, BT, BT, NLc, "e", "n",
      "d", " ", "o", "f", " ", "i", "t", ".">>

\* a fenced block longer than three chunk sizes: 
\* '# T\nlead.\n[fence]\naa\nbb\n\ncc\ndd\n\nee ff gg hh ii jj kk ll mm nn oo\n[fence]\ntail text.'
TextBigCode ==
    <<"#", " ", "T", NLc, "l", "e", "a", "d", ".", NLc, BT, BT, BT, NLc,
      "a", "a", NLc, "b", "b", NLc, NLc, "c", "c", NLc, "d", "d", NLc, NLc,
      "e", "e", " ", "f", "f", " ", "g", "g", " ", "h", "h", " ", "i", "i",
      " ", "j", "j", " ", "k", "k", " ", "l", "l", " ", "m", "m", " ", "n",
      "n", " ", "o", "o", NLc, BT, BT, BT, NLc, "t", "a", "i", "l", " ",
      "t", "e", "x", "t", ".">>

\* a TypeDoc class page: '# C\n## Content\n- m1\n## m1\nbody one.\n### m2\nbody two.\n## m3\nbody three.'
TextTypeDocApi ==
    <<"#", " ", "C", NLc, "#", "#", " ", "C", "o", "n", "t", "e", "n", "t",
      NLc, "-", " ", "m", "1", NLc, "#", "#", " ", "m", "1", NLc, "b", "o",
      "d", "y", " ", "o", "n", "e", ".", NLc, "#", "#", "#", " ", "m", "2",
      NLc, "b", "o", "d", "y", " ", "t", "w", "o", ".", NLc, "#", "#", " ",
      "m", "3", NLc, "b", "o", "d", "y", " ", "t", "h", "r", "e", "e", ".">>

\* a JavaDoc class page: '# C\n## Method Summary\nm1 m2\n## Method Details\n### m1\nab\n### m2\ncd\n### m3\nef gh.'
TextJavaDocApi ==
    <<"#", " ", "C", NLc, "#", "#", " ", "M", "e", "t", "h", "o", "d", " ",
      "S", "u", "m", "m", "a", "r", "y", NLc, "m", "1", " ", "m", "2", NLc,
      "#", "#", " ", "M", "e", "t", "h", "o", "d", " ", "D", "e", "t", "a",
      "i", "l", "s", NLc, "#", "#", "#", " ", "m", "1", NLc, "a", "b", NLc,
      "#", "#", "#", " ", "m", "2", NLc, "c", "d", NLc, "#", "#", "#", " ",
      "m", "3", NLc, "e", "f", " ", "g", "h", ".">>

\* an h2 section with two h3 sections: '## a\n### b\ntext b.\n### c\ntext c is here.'
TextSubSections ==
    <<"#", "#", " ", "a", NLc, "#", "#", "#", " ", "b", NLc, "t", "e", "x",
      "t", " ", "b", ".", NLc, "#", "#", "#", " ", "c", NLc, "t", "e", "x",
      "t", " ", "c", " ", "i", "s", " ", "h", "e", "r", "e", ".">>

Texts ==
    <<TextTiny, TextSmall, TextSections, TextFencedHeader, TextCodeMix, TextBigCode,
      TextTypeDocApi, TextJavaDocApi, TextSubSections>>

Categories == <<"api", "demo", "doc">>

\* the documents the loader may hand over: every text under every category
Corpus ==
    [k \in 1 .. Len(Texts) * Len(Categories) |->
        [content |-> Texts[((k - 1) \div Len(Categories)) + 1],
         category |-> Categories[((k - 1) % Len(Categories)) + 1]]]

\* the lists of documents tried: n neighbours of the corpus, numbered d1, d2, ...
DocLists ==
    {[j \in 1 .. n |->
        [id |-> <<"d">> \o Digits(j),
         content |-> Corpus[((k + 4 * (j - 1) - 1) % Len(Corpus)) + 1].content,
         category |-> Corpus[((k + 4 * (j - 1) - 1) % Len(Corpus)) + 1].category]] :
        n \in 1 .. MaxDocs, k \in 1 .. Len(Corpus)}

ChunkerTypes == {"markdown", "typedoc", "javadoc"}

\* chunkSize and min_chunk_size, scaled down to the length of the texts
ChunkerOptions == [chunkSize : {12, 16}, minChunkSize : {3, 8}]

\* createChunker(type, options).chunkDocuments(docs)
ChunkDocuments(type, docs) ==
    /\ cpc = "idle"
    /\ chunkerType' = type
    /\ cdocs' = docs
    /\ allChunks' = chunkDocuments(type, docs)
    /\ cpc' = "done"
    /\ UNCHANGED cconf
    /\ UNCHANGED notChunkerVars

\* new chunker, nothing chunked yet
ChunkerIdle ==
    /\ cpc = "idle"
    /\ cconf \in ChunkerOptions
    /\ chunkerType = "-"
    /\ cdocs = <<>>
    /\ allChunks = <<>>

(***************************************************************************)
(* splitProtected: the loop over a regular segment                         *)
(***************************************************************************)

\* how a regular segment may begin: '', 'x ', 'go '
Leads == {<<>>, <<"x", " ">>, <<"g", "o", " ">>}

\* regular text around a URL: 'http://ab.cd/ef gh ij.',
\* 'see http://ab.cd. then more text.',
\* 'a.b is at http://cd.ef/gh\nnext line here.',
\* 'read http://ab.cd/ef.gh now. ok'
UrlTexts ==
    {<<"h", "t", "t", "p", ":", "/", "/", "a", "b", ".", "c", "d", "/", "e", "f", " ", "g", "h", " ", "i", "j", ".">>,
     <<"s", "e", "e", " ", "h", "t", "t", "p", ":", "/", "/", "a", "b", ".", "c", "d", ".", " ", "t", "h", "e", "n", " ", "m", "o", "r", "e", " ", "t", "e", "x", "t", ".">>,
     <<"a", ".", "b", " ", "i", "s", " ", "a", "t", " ", "h", "t", "t", "p", ":", "/", "/", "c", "d", ".", "e", "f", "/", "g", "h", NLc, "n", "e", "x", "t", " ", "l", "i", "n", "e", " ", "h", "e", "r", "e", ".">>,
     <<"r", "e", "a", "d", " ", "h", "t", "t", "p", ":", "/", "/", "a", "b", ".", "c", "d", "/", "e", "f", ".", "g", "h", " ", "n", "o", "w", ".", " ", "o", "k">>}

\* the regular segments tried, all longer than any chunkSize
RegularTexts == {lead \o body : lead \in Leads, body \in UrlTexts}

NoSplit == [chunks |-> <<>>, currentChunk |-> <<>>, remaining |-> <<>>]

\* a regular segment that does not fit the current chunk: let remaining = segmentText
SplitText ==
    /\ lpc = "idle"
    /\ Len(split.currentChunk) + Len(regular) > cconf.chunkSize
    /\ split' = [split EXCEPT !.remaining = regular]
    /\ lpc' = "loop"
    /\ UNCHANGED <<regular, cuts>>
    /\ UNCHANGED notSplitterVars

\* one turn of while (remaining): the rest is appended if it fits, else the
\* text is cut where findBreakPoint(remaining, spaceLeft) says
WhileRemaining ==
    /\ lpc = "loop"
    /\ LET spaceLeft == cconf.chunkSize - Len(split.currentChunk)
       IN  /\ split' = RegularStep(split, spaceLeft)
           /\ cuts' = IF Len(split.remaining) <= spaceLeft THEN cuts
                      ELSE Append(cuts, [text |-> split.remaining, maxPos |-> spaceLeft,
                                         cutPoint |-> findBreakPoint(split.remaining,
                                                                     spaceLeft)])
    /\ lpc' = IF split'.remaining = <<>> THEN "done" ELSE "loop"
    /\ UNCHANGED regular
    /\ UNCHANGED notSplitterVars

SplitterIdle ==
    /\ lpc = "idle"
    /\ split = NoSplit
    /\ cuts = <<>>

(***************************************************************************)
(* Embedder: dynamic batching                                              *)
(***************************************************************************)

\* const MAX_BATCH_TOKENS = 60_000
MAX_BATCH_TOKENS == 60000

\* the longest list of texts handed to embedBatch
MaxTexts == 4

\* the largest config.batchSize (128 in the program, scaled to the lists)
MaxEmbedBatchSize == 3

\* a text, as far as estimateTokens can tell texts apart: the number of its
\* characters in [一-龥] and the number of its other characters
TextOf(chineseChars, otherChars) ==
    [chineseChars |-> chineseChars, otherChars |-> otherChars]

\* texts of 0, 2, 30000, 30000, 60000 and 60001 estimated tokens
SomeTexts ==
    {TextOf(0, 0), TextOf(0, 5), TextOf(0, 75000), TextOf(45000, 0),
     TextOf(0, 150000), TextOf(1, 149999)}

\* estimateTokens(text) = Math.ceil(chineseChars / 1.5 + otherChars / 2.5)
estimateTokens(text) == Ceil(10 * text.chineseChars + 6 * text.otherChars, 15)

\* a closing test that looks at the tokens already in the batch only
ClosesBatchLate(tokens) ==
    /\ Len(batch) > 0
    /\ batchTokens > MAX_BATCH_TOKENS \/ Len(batch) >= embedBatchSize

\* batch.length > 0 && (batchTokens + tokens > MAX_BATCH_TOKENS
\*                      || batch.length >= this.config.batchSize)
ClosesBatch(tokens) ==
    /\ Len(batch) > 0
    /\ batchTokens + tokens > MAX_BATCH_TOKENS \/ Len(batch) >= embedBatchSize

\* what embedBatchWithRetry(batch) returns when it succeeds:
\* texts.map(text => ({ text, embedding, tokens: estimateTokens(text) }))
ResultsOf(sent) ==
    [i \in 1 .. Len(sent) |-> [text |-> sent[i], tokens |-> estimateTokens(sent[i])]]

\* embedBatch(texts): an empty list returns [] at once
EmbedBatch ==
    /\ bpc = "idle"
    /\ nextText' = 0
    /\ batch' = <<>>
    /\ batchTokens' = 0
    /\ allResults' = <<>>
    /\ sentBatches' = <<>>
    /\ bpc' = IF Len(texts) = 0 THEN "returned" ELSE "loop"
    /\ UNCHANGED <<texts, embedBatchSize>>
    /\ UNCHANGED notBatcherVars

\* one turn of for (const text of texts): the batch is closed and sent first
\* if the text does not fit, and the text is pushed; sent says whether the
\* embedBatchWithRetry of a closed batch succeeds
LoopTurn(sent) ==
    /\ bpc = "loop"
    /\ nextText < Len(texts)
    /\ LET text == texts[nextText + 1]
           tokens == estimateTokens(text)
       IN  IF ClosesBatch(tokens)
           THEN /\ sentBatches' = Append(sentBatches, batch)
                /\ IF sent
                   THEN /\ allResults' = allResults \o ResultsOf(batch)
                        /\ batch' = <<text>>
                        /\ batchTokens' = tokens
                        /\ nextText' = nextText + 1
                        /\ bpc' = "loop"
                   ELSE /\ bpc' = "thrown"
                        /\ UNCHANGED <<allResults, batch, batchTokens, nextText>>
           ELSE /\ sent
                /\ batch' = Append(batch, text)
                /\ batchTokens' = batchTokens + tokens
                /\ nextText' = nextText + 1
                /\ UNCHANGED <<allResults, sentBatches, bpc>>
    /\ UNCHANGED <<texts, embedBatchSize>>
    /\ UNCHANGED notBatcherVars

\* after the loop: if (batch.length > 0) the last batch is sent; return allResults
LastBatch(sent) ==
    /\ bpc = "loop"
    /\ nextText = Len(texts)
    /\ IF Len(batch) > 0
       THEN /\ sentBatches' = Append(sentBatches, batch)
            /\ IF sent
               THEN /\ allResults' = allResults \o ResultsOf(batch)
                    /\ bpc' = "returned"
               ELSE /\ bpc' = "thrown"
                    /\ UNCHANGED allResults
       ELSE /\ sent
            /\ bpc' = "returned"
            /\ UNCHANGED <<allResults, sentBatches>>
    /\ UNCHANGED <<texts, embedBatchSize, nextText, batch, batchTokens>>
    /\ UNCHANGED notBatcherVars

BatcherIdle ==
    /\ bpc = "idle"
    /\ nextText = 0
    /\ batch = <<>>
    /\ batchTokens = 0
    /\ allResults = <<>>
    /\ sentBatches = <<>>

(***************************************************************************)
(* Specifications                                                          *)
(***************************************************************************)

\* the configuration the other subsystems are held at
IndexerDefault == IndexerIdle /\ batchSize = 1 /\ checkpoint = NoCheckpoint

LimiterDefault ==
    LimiterIdle /\ windowMs = 4 * LimiterTickMs /\ rpmLimit = 1

EmbedderDefault == EmbedderIdle /\ embeddingDim = 1024

SearcherDefault ==
    SearcherIdle /\ sconf.docLanguage = "zh" /\ sconf.reranker

FetcherDefault ==
    FetcherIdle /\ storePoints = [id \in PointIds |-> [doc_id |-> "a", chunk_index |-> 0]]

ChunkerDefault ==
    ChunkerIdle /\ cconf = [chunkSize |-> 12, minChunkSize |-> 3]

BatcherDefault == BatcherIdle /\ texts = <<>> /\ embedBatchSize = 1

SplitterDefault == SplitterIdle /\ regular = <<>>

InitHttp ==
    /\ HttpIdle
    /\ IndexerDefault
    /\ LimiterDefault
    /\ EmbedderDefault
    /\ SearcherDefault
    /\ FetcherDefault
    /\ ChunkerDefault
    /\ BatcherDefault
    /\ SplitterDefault

NextHttp == Request \/ Respond \/ Sweep \/ Tick

\* the same server with the request history kept
NextSessions == RequestLogged \/ Respond \/ SweepLogged \/ Tick

SpecHttp == InitHttp /\ [][NextHttp]_vars

SpecSessions == InitHttp /\ [][NextSessions]_vars

InitIndexer ==
    /\ HttpIdle
    /\ IndexerIdle
    /\ LimiterDefault
    /\ EmbedderDefault
    /\ SearcherDefault
    /\ FetcherDefault
    /\ ChunkerDefault
    /\ BatcherDefault
    /\ SplitterDefault

NextIndexer ==
    \/ \E f \in BOOLEAN : IndexerStart(f)
    \/ InitCollection
    \/ LoadCheckpoint
    \/ EmbedBatchOk
    \/ EmbedBatchFail
    \/ UpsertOk
    \/ UpsertFail
    \/ SaveCheckpoint
    \/ SaveCheckpointFail
    \/ ClearCheckpoint
    \/ \E at \in KillPoints : Kill(at)

SpecIndexer == InitIndexer /\ [][NextIndexer]_vars

InitLimiter ==
    /\ HttpIdle
    /\ IndexerDefault
    /\ LimiterIdle
    /\ EmbedderDefault
    /\ SearcherDefault
    /\ FetcherDefault
    /\ ChunkerDefault
    /\ BatcherDefault
    /\ SplitterDefault

\* the token counts of the calls tried
TokenCounts == {1, MaxTokens}

\* how far the clock moves inside one call of check: <<s1, s2>>
ClockSkews == {<<0, 0>>, <<LimiterTickMs, 0>>, <<0, LimiterTickMs>>}

NextLimiter ==
    \/ \E n \in TokenCounts, s \in ClockSkews : Check(n, s[1], s[2])
    \/ \E n \in TokenCounts : Record(n)
    \/ \E n \in TokenCounts, s \in ClockSkews : CheckAndRecord(n, s[1], s[2])
    \/ Return
    \/ LimiterTick

SpecLimiter == InitLimiter /\ [][NextLimiter]_vars

\* callers that use checkAndRecord only
NextCheckAndRecord ==
    \/ \E n \in TokenCounts, s \in ClockSkews : CheckAndRecord(n, s[1], s[2])
    \/ Return
    \/ LimiterTick

SpecCheckAndRecord == InitLimiter /\ [][NextCheckAndRecord]_vars

InitEmbed ==
    /\ HttpIdle
    /\ IndexerDefault
    /\ LimiterIdle
    /\ EmbedderIdle
    /\ SearcherDefault
    /\ FetcherDefault
    /\ ChunkerDefault
    /\ BatcherDefault
    /\ SplitterDefault

NextEmbed ==
    \/ \E n \in TokenCounts : EmbedStart(n)
    \/ AttemptRateLimited
    \/ \E outcome \in NetworkOutcomes, got \in WrongLengths : AttemptNetwork(outcome, got)
    \/ Sleep

SpecEmbed == InitEmbed /\ [][NextEmbed]_vars

InitSearch ==
    /\ HttpIdle
    /\ IndexerDefault
    /\ LimiterDefault
    /\ EmbedderDefault
    /\ SearcherIdle
    /\ FetcherDefault
    /\ ChunkerDefault
    /\ BatcherDefault
    /\ SplitterDefault

NextSearch ==
    \/ \E caller \in {"tool", "direct"}, q \in Queries, lim \in 0 .. MaxLimit,
          useRerank \in {"true", "false", "undefined"} : Search(caller, q, lim, useRerank)
    \/ EmbedQueryOk
    \/ \E err \in SearchFailures : EmbedQueryFail(err)
    \/ QueryOk
    \/ \E err \in SearchFailures : QueryFail(err)
    \/ RerankOk
    \/ \E why \in RerankFailures : RerankFail(why)
    \/ ToolWrapper

SpecSearch == InitSearch /\ [][NextSearch]_vars

InitFetch ==
    /\ HttpIdle
    /\ IndexerDefault
    /\ LimiterDefault
    /\ EmbedderDefault
    /\ SearcherDefault
    /\ FetcherIdle
    /\ ChunkerDefault
    /\ BatcherDefault
    /\ SplitterDefault

NextFetch ==
    \/ \E d \in DocIds : Fetch(d)
    \/ ScrollOk
    \/ \E err \in SearchFailures : ScrollFail(err)

SpecFetch == InitFetch /\ [][NextFetch]_vars

InitChunker ==
    /\ HttpIdle
    /\ IndexerDefault
    /\ LimiterDefault
    /\ EmbedderDefault
    /\ SearcherDefault
    /\ FetcherDefault
    /\ ChunkerIdle
    /\ BatcherDefault
    /\ SplitterDefault

NextChunker == \E type \in ChunkerTypes, docs \in DocLists : ChunkDocuments(type, docs)

SpecChunker == InitChunker /\ [][NextChunker]_vars

\* the lists of at most MaxTexts texts
TextLists == UNION {[1 .. n -> SomeTexts] : n \in 0 .. MaxTexts}

InitBatching ==
    /\ HttpIdle
    /\ IndexerDefault
    /\ LimiterDefault
    /\ EmbedderDefault
    /\ SearcherDefault
    /\ FetcherDefault
    /\ ChunkerDefault
    /\ BatcherIdle
    /\ texts \in TextLists
    /\ embedBatchSize \in 1 .. MaxEmbedBatchSize
    /\ SplitterDefault

NextBatching ==
    \/ EmbedBatch
    \/ \E sent \in BOOLEAN : LoopTurn(sent)
    \/ \E sent \in BOOLEAN : LastBatch(sent)

SpecBatching == InitBatching /\ [][NextBatching]_vars

InitSplit ==
    /\ HttpIdle
    /\ IndexerDefault
    /\ LimiterDefault
    /\ EmbedderDefault
    /\ SearcherDefault
    /\ FetcherDefault
    /\ ChunkerIdle
    /\ BatcherDefault
    /\ SplitterIdle
    /\ regular \in RegularTexts

NextSplit == SplitText \/ WhileRemaining

SpecSplit == InitSplit /\ [][NextSplit]_vars

(***************************************************************************)
(* Session pool: properties                                                *)
(***************************************************************************)

\* the step just taken served a request
Served == req = NoRequest /\ req' # NoRequest

(***************************************************************************)
(* C1 as stated: a request whose mcp-session-id header is present but is   *)
(* not a key of the product's session map is answered 404 / -32001,        *)
(* whatever its method or body, creates no transport and leaves the        *)
(* session map unchanged.  Refuted by a header that is present and empty.  *)
(***************************************************************************)
C1AsStated ==
    [][(Served /\ req'.header # NoHeader
            /\ req'.header[1] \notin DOMAIN sessions[req'.product])
        => /\ resp'.status = 404 /\ resp'.code = -32001
           /\ resp'.created = 0
           /\ sessions' = sessions /\ transports' = transports]_vars

(***************************************************************************)
(* C1 amended: a request whose mcp-session-id header is present and        *)
(* non-empty but is not a key of the product's session map is answered     *)
(* 404 / -32001, whatever its method or body (an initialize body           *)
(* included); no transport is created and the session map is unchanged.    *)
(***************************************************************************)
C1UnknownSessionIs404 ==
    [][(Served /\ HasSessionId(req'.header)
            /\ req'.header[1] \notin DOMAIN sessions[req'.product])
        => /\ resp'.status = 404 /\ resp'.code = -32001
           /\ resp'.created = 0
           /\ sessions' = sessions /\ transports' = transports]_vars

C1Witness ==
    /\ req.header = <<NeverIssued>> /\ req.body = "initialize"
    /\ req.method = "POST" /\ req.ok
    /\ resp.status = 404 /\ resp.code = -32001
    /\ sessions[req.product] # <<>>

(***************************************************************************)
(* C2: a session id issued at one product's endpoint is never accepted at  *)
(* another's: a request at product B carrying the id of a transport        *)
(* created by product A's handler is answered 404, is forwarded to no      *)
(* transport and changes no session entry (last_activity included).        *)
(***************************************************************************)
C2SessionIsolation ==
    [][(Served /\ HasSessionId(req'.header)
            /\ req'.header[1] \in Transports
            /\ transports[req'.header[1]].state # "none"
            /\ transports[req'.header[1]].product # req'.product)
        => /\ resp'.status = 404 /\ resp'.code = -32001
           /\ resp'.transport = 0
           /\ sessions' = sessions /\ transports' = transports]_vars

C2Witness ==
    /\ req.product = "B" /\ HasSessionId(req.header)
    /\ req.header[1] \in DOMAIN sessions["A"]
    /\ resp.status = 404
    /\ sessions["B"] # <<>>

(***************************************************************************)
(* C3: no session outlives its TTL by more than one sweep interval: every  *)
(* entry of a session map was not yet expired at the last sweep, so its    *)
(* idle time is at most 30 + 5 minutes; a session the sweeper reaped is in *)
(* no map and its transport is closed.                                     *)
(***************************************************************************)
C3ReapedWithinInterval ==
    /\ \A p \in Products : \A sid \in DOMAIN sessions[p] :
        /\ sessions[p][sid].lastActivity + SESSION_TTL_MS
                >= nextSweep - SESSION_CLEANUP_INTERVAL_MS
        /\ now - sessions[p][sid].lastActivity
                <= SESSION_TTL_MS + SESSION_CLEANUP_INTERVAL_MS
    /\ \A sid \in expiredLog :
        /\ \A p \in Products : sid \notin DOMAIN sessions[p]
        /\ \A t \in Transports :
                SessionIdOf(t) = sid => transports[t].state = "closed"

C3Witness ==
    /\ HasSessionId(req.header) /\ req.header[1] \in expiredLog
    /\ resp.status = 404 /\ resp.code = -32001

(***************************************************************************)
(* C4 as stated: every request with no mcp-session-id header whose body is *)
(* an initialize request leaves exactly one new entry in the session map,  *)
(* keyed by the id returned in the response header.  Refuted by an         *)
(* initialize body sent with GET or DELETE, or refused by the transport.   *)
(***************************************************************************)
C4AsStated ==
    [][(Served /\ req'.header = NoHeader /\ req'.body = "initialize")
        => /\ resp'.created # 0
           /\ resp'.sessionId # 0
           /\ DOMAIN sessions'[req'.product]
                = DOMAIN sessions[req'.product] \cup {resp'.sessionId}]_vars

(***************************************************************************)
(* C4 amended: a POST with no mcp-session-id header whose body is an       *)
(* initialize request and which the transport accepts creates a fresh      *)
(* transport (and server), and when its response is sent the product's map *)
(* holds exactly one new entry, keyed by the generated id returned in the  *)
(* response header, all other entries unchanged; every later request at    *)
(* that endpoint echoing a registered id is forwarded to the transport     *)
(* that generated it.                                                      *)
(***************************************************************************)
C4InitializeRegisters ==
    [][/\ (Served /\ req'.header = NoHeader /\ req'.body = "initialize"
                /\ req'.method = "POST" /\ req'.ok)
          => LET p == req'.product
                 t == resp'.created
                 sid == resp'.sessionId
             IN  /\ resp'.status = 200
                 /\ t \in Transports /\ sid = SessionIdOf(t)
                 /\ transports[t].state = "none"
                 /\ transports'[t] = [state |-> "initialized", product |-> p]
                 /\ sid \notin DOMAIN sessions[p]
                 /\ DOMAIN sessions'[p] = DOMAIN sessions[p] \cup {sid}
                 /\ sessions'[p][sid].transport = t
                 /\ \A s \in DOMAIN sessions[p] : sessions'[p][s] = sessions[p][s]
                 /\ \A q \in Products \ {p} : sessions'[q] = sessions[q]
       /\ (Served /\ HasSessionId(req'.header)
                /\ req'.header[1] \in DOMAIN sessions[req'.product])
          => /\ resp'.transport = sessions[req'.product][req'.header[1]].transport
             /\ SessionIdOf(resp'.transport) = req'.header[1]
             /\ resp'.created = 0]_vars

C4Witness ==
    /\ HasSessionId(req.header) /\ req.body = "call" /\ req.method = "POST"
    /\ req.header[1] \in DOMAIN sessions[req.product]
    /\ resp.status = 200
    /\ resp.transport = sessions[req.product][req.header[1]].transport
    /\ transports[resp.transport].state = "initialized"

(***************************************************************************)
(* C5: a request with no mcp-session-id header whose body is not an        *)
(* initialize request is answered 400 / -32600 and creates no transport,   *)
(* server or session entry.                                                *)
(***************************************************************************)
C5MissingSessionIs400 ==
    [][(Served /\ req'.header = NoHeader /\ req'.body # "initialize")
        => /\ resp'.status = 400 /\ resp'.code = -32600
           /\ resp'.created = 0 /\ resp'.transport = 0
           /\ sessions' = sessions /\ transports' = transports]_vars

C5Witness ==
    /\ req.header = NoHeader /\ req.method = "DELETE" /\ req.body = "none"
    /\ resp.status = 400 /\ resp.code = -32600

(***************************************************************************)
(* C6: every key of a session map refers to a transport of that product    *)
(* that is initialized and not closed; the id of a closed transport is in  *)
(* no map, and a request carrying it is answered 404 / -32001.             *)
(***************************************************************************)
C6ClosedIsRemoved ==
    /\ [](/\ \A p \in Products : \A sid \in DOMAIN sessions[p] :
                /\ sessions[p][sid].transport \in Transports
                /\ SessionIdOf(sessions[p][sid].transport) = sid
                /\ transports[sessions[p][sid].transport]
                        = [state |-> "initialized", product |-> p]
          /\ \A t \in Transports : transports[t].state = "closed"
                => \A p \in Products : SessionIdOf(t) \notin DOMAIN sessions[p])
    /\ [][(Served /\ HasSessionId(req'.header)
                /\ req'.header[1] \in Transports
                /\ transports[req'.header[1]].state = "closed")
            => resp'.status = 404 /\ resp'.code = -32001]_vars

C6Witness ==
    /\ HasSessionId(req.header) /\ req.header[1] \in Transports
    /\ req.header[1] \notin expiredLog
    /\ transports[req.header[1]].state = "closed"
    /\ resp.status = 404 /\ resp.code = -32001

(***************************************************************************)
(* Indexer and vector store: properties                                    *)
(***************************************************************************)

\* the chunks a checkpoint acknowledges: the named chunk and all before it
Acknowledged(cp) ==
    IF cp \in ChunkIds
    THEN {ChunkList[k] : k \in 1 .. (CHOOSE k \in 1 .. NumChunks : ChunkList[k] = cp)}
    ELSE {}

\* the kill points the recovery property is stated for
ListedKillPoints == {"embed", "upsert", "upsertApplied", "beforeSave", "beforeClear"}

\* a run that was started after a killed run has returned normally
RerunDone == ipc = "done" /\ prevEnd \in KillPoints

C8UpsertIdempotent ==
    collection.exists =>
        /\ Cardinality(DOMAIN collection.points) = Cardinality(inStore)
        /\ \A c \in inStore :
              {u \in DOMAIN collection.points : collection.points[u] = c}
                  = {stringToUuid(c)}

\* the whole list has been indexed a second time into the same collection
C8Witness ==
    /\ ipc = "done" /\ ~force /\ prevEnd = "done"
    /\ \A c \in ChunkIds : prevUpserted[c] = 1 /\ upserted[c] = 1
    /\ Cardinality(DOMAIN collection.points) = NumChunks

(***************************************************************************)
(* Rate limiter: properties                                                *)
(***************************************************************************)

\* check or checkAndRecord has just been called
Checked == call = NoCall /\ call'.op \in {"check", "checkAndRecord"}

\* the entries recorded less than a window before time t
InWindow(t) == {i \in DOMAIN history : history[i].timestamp > t - windowMs}

RECURSIVE TokensOf(_)
TokensOf(is) ==
    IF is = {} THEN 0
    ELSE LET i == CHOOSE j \in is : TRUE IN history[i].weight + TokensOf(is \ {i})

\* the request ceiling is reached, or the call's tokens would pass the token
\* ceiling, counting what was recorded inside the window that ends now
OverLimit ==
    \/ Cardinality(InWindow(clock)) >= rpmLimit
    \/ TokensOf(InWindow(clock)) + call'.tokens > tpmLimit

\* earliest_entry_time + window - now of the rejected call, in milliseconds
\* (0 when no entry is left in the window)
WaitMs ==
    LET E == {history[i].timestamp : i \in InWindow(call'.t2)}
    IN IF E = {} THEN 0
       ELSE (CHOOSE e \in E : \A f \in E : e <= f) + windowMs - call'.t3

\* the rejected call carries the retry-after of getRetryAfter: the least
\* whole number of seconds, not below zero, that covers WaitMs
RetryAfterAsComputed ==
    /\ call'.error = "RateLimitError"
    /\ call'.retryAfter >= 0
    /\ call'.retryAfter * 1000 >= WaitMs
    /\ call'.retryAfter > 0 => (call'.retryAfter - 1) * 1000 < WaitMs

AttemptFailed == epc = "try" /\ epc' \in {"sleep", "thrown"}

\* the error just caught is one the embedder retries: a RateLimitError, or a
\* message naming a timeout, a connection reset or refusal, or one of the
\* status codes 500, 502, 503, 529
CaughtRetryable ==
    \/ lastError'.name = "RateLimitError"
    \/ lastError'.text \in {"Request timeout", "read ECONNRESET", "Status code: 500"}

Answered == spc = "returned" \/ (spc = "done" /\ thrownBySearch = "-")

\* the limit the caller is entitled to: the one given, else rerank_top_k
RequestedLimit == IF sreq.limit = NoLimit THEN sconf.rerankTopK ELSE sreq.limit

\* C11: a search issues at most one vector-store query, and exactly one by
\* the time it answers: the hybrid query when the detected language equals
\* the collection's doc_language, reported as fusion_mode "rrf"; otherwise
\* the dense-only query with the score threshold, reported as "dense_only".
C11FusionModeSelection ==
    /\ Len(issued) <= 1
    /\ Answered =>
        /\ Len(issued) = 1
        /\ response.detected_lang = detectedLang
        /\ IF detectedLang = sconf.docLanguage
           THEN /\ issued[1].kind = "hybrid"
                /\ response.fusion_mode = "rrf"
           ELSE /\ issued[1].kind = "dense" /\ issued[1].threshold
                /\ response.fusion_mode = "dense_only"

\* an English query has been answered from a Chinese collection
C11Witness ==
    /\ Answered
    /\ sconf.docLanguage = "zh" /\ detectedLang = "en" /\ sreq.query.lang = "en"
    /\ response.fusion_mode = "dense_only"
    /\ Len(response.results) > 0

\* C12 as stated: the 4-character Chinese query with limit 3 against a zh
\* collection is answered with detected_lang "zh" and fusion_mode "rrf", by
\* at most 3 results of non-increasing score.
C12AsStated ==
    (Answered /\ sreq.query.text = "tiao jian ge shi" /\ sreq.limit = 3
        /\ sconf.docLanguage = "zh") =>
        /\ response.detected_lang = "zh"
        /\ response.fusion_mode = "rrf"
        /\ Len(response.results) <= 3
        /\ \A i \in 1 .. Len(response.results) - 1 :
              response.results[i].score >= response.results[i + 1].score

\* C13: when the rerank call fails (network error, non-2xx status, or an
\* answer without data) search still answers: with the fusion candidates in
\* fusion order cut to the requested limit, rerank_used true and one warning
\* logged; the caller is never left with an error.
C13RerankAbsorbed ==
    /\ [](rerankState \in RerankFailures =>
            /\ Answered
            /\ response.rerank_used
            /\ warnings = 1
            /\ toolOutcome.kind # "throws")
    /\ [][(spc = "rerank" /\ rerankState' \in RerankFailures) =>
            /\ Len(response'.results) = Min(RequestedLimit, Len(results))
            /\ \A i \in 1 .. Len(response'.results) :
                  /\ response'.results[i].chunk_id = results[i].id
                  /\ response'.results[i].score = results[i].score]_vars

\* the search tool has answered with the first fusion candidates after a
\* rerank call that came back with a non-2xx status
C13Witness ==
    /\ spc = "done" /\ sreq.caller = "tool"
    /\ rerankState = "status"
    /\ toolOutcome.kind = "content"
    /\ Len(results) > Len(response.results)
    /\ Len(response.results) >= 2

\* C14: every search response holds at most the requested limit of results
\* (rerank_top_k when no limit is given), ranked 1, 2, ... in list order,
\* with scores that never increase along the list.
C14ResponseShape ==
    Answered =>
        /\ Len(response.results) <= RequestedLimit
        /\ \A i \in 1 .. Len(response.results) : response.results[i].rank = i
        /\ \A i \in 1 .. Len(response.results) - 1 :
              response.results[i].score >= response.results[i + 1].score

\* a reranked response without a given limit, whose scores do fall
C14Witness ==
    /\ Answered
    /\ rerankState = "ok" /\ sreq.limit = NoLimit
    /\ Len(response.results) = sconf.rerankTopK
    /\ response.results[1].score > response.results[Len(response.results)].score
    /\ response.results[1].chunk_id > response.results[Len(response.results)].chunk_id

\* C15 as stated: a failure of the query embedding or of the vector-store
\* query leaves the search tool throwing a SearchError, never returning
\* content.
C15AsStated ==
    (spc = "done" /\ sreq.caller = "tool" /\ thrownBySearch # "-") =>
        /\ toolOutcome.kind = "throws"
        /\ toolOutcome.error = "SearchError"

(***************************************************************************)
(* Document fetch: properties                                              *)
(***************************************************************************)

\* the fetch tool has answered with content
Fetched == fpc = "done" /\ fetchOutcome.kind = "content"

\* C16: getDocChunks returns only chunks of points whose payload doc_id is
\* the argument, none of them twice, no more than the scroll limit, in
\* ascending order of chunk_index; the fetch tool reports their number as
\* chunk_count and, as full_content, their contents in that order with two
\* newlines between neighbours.
C16DocChunksOrderedAndJoined ==
    Fetched =>
        LET n == Len(docChunks)
            full == fetchOutcome.response.full_content
        IN  /\ \A i \in 1 .. n : storePoints[docChunks[i].chunk_id].doc_id = docId
            /\ \A i, j \in 1 .. n : i # j => docChunks[i].chunk_id # docChunks[j].chunk_id
            /\ n <= MaxDocChunks
            /\ \A i \in 1 .. n - 1 : docChunks[i].chunk_index <= docChunks[i + 1].chunk_index
            /\ fetchOutcome.response.chunk_count = n
            /\ Len(full) = IF n = 0 THEN 0 ELSE 3 * n - 2
            /\ \A i \in 1 .. n : full[3 * i - 2] = 64 + docChunks[i].chunk_id
            /\ \A i \in 1 .. n - 1 : full[3 * i - 1] = 10 /\ full[3 * i] = 10

\* a document of more points than the scroll limit, fetched from a scroll
\* that listed a later chunk first
C16Witness ==
    /\ Fetched
    /\ Cardinality(Matching(docId)) > MaxDocChunks
    /\ Len(docChunks) = MaxDocChunks
    /\ storePoints[scrollResult[1]].chunk_index > storePoints[scrollResult[2]].chunk_index
    /\ storePoints[scrollResult[2]].chunk_index # NoChunkIndex
    /\ docChunks[1].chunk_id = scrollResult[2]

\* ---------------------------------------------------------------------------
\* Chunkers: properties
\* ---------------------------------------------------------------------------

\* the chunks emitted for one document, in emission order
ChunksOf(doc) == SelectSeq(allChunks, LAMBDA c : c.doc_id = doc.id)

\* C17: for every chunker, category and document, the chunks emitted for the
\* document carry chunk_index 0, 1, ..., n-1 in emission order, their ids are
\* the document id followed by _chunk and the index in decimal, no two chunks
\* share an id, and after chunkDocuments each of them has total_chunks = n.
C17ChunkIndexTotality ==
    cpc = "done" =>
        /\ \A j \in DOMAIN cdocs :
              LET mine == ChunksOf(cdocs[j])
              IN  \A i \in DOMAIN mine :
                      /\ mine[i].chunk_index = i - 1
                      /\ mine[i].id = cdocs[j].id \o ChunkSuffix \o Digits(i - 1)
                      /\ mine[i].total_chunks = Len(mine)
        /\ \A i, k \in DOMAIN allChunks :
              /\ i # k => allChunks[i].id # allChunks[k].id
              /\ \E j \in DOMAIN cdocs : allChunks[i].doc_id = cdocs[j].id

\* two documents were chunked by the markdown chunker, the undersized lead
\* 'ab' of the first was discarded and several chunks followed it
C17Witness ==
    /\ cpc = "done"
    /\ chunkerType = "markdown"
    /\ cconf.minChunkSize = 3
    /\ Len(cdocs) = 2
    /\ cdocs[1].content = TextSections
    /\ Len(ChunksOf(cdocs[1])) >= 3
    /\ Head(ChunksOf(cdocs[1])).content[1] = "#"
    /\ Len(ChunksOf(cdocs[2])) >= 2

RECURSIVE FenceCount(_, _)
\* the number of fences of s from position i on, counted left to right
FenceCount(s, i) ==
    IF IndexOf(s, FENCE, i) < 0 THEN 0
    ELSE 1 + FenceCount(s, IndexOf(s, FENCE, i) + Len(FENCE))

\* the fenced blocks of a source document, as texts
FencedBlocksOf(doc) ==
    LET blocks == CodeBlocks(doc.content, 0)
    IN  [b \in DOMAIN blocks |-> StrSlice(doc.content, blocks[b].start, blocks[b].end)]

\* the opening fence line of a fenced block
OpeningFence(block) == StrSlice(block, 0, IndexOf(block, NL, 0))

\* a chunk that holds fences holds them in pairs, the first one being the
\* opening fence line of the block
WrappedIn(content, block) ==
    FenceCount(content, 0) > 0 =>
        /\ FenceCount(content, 0) % 2 = 0
        /\ MatchesAt(content, OpeningFence(block) \o NL, IndexOf(content, FENCE, 0))

\* C18: no emitted chunk straddles a code fence: every fenced block of a
\* source document lies whole inside one chunk of the document or, when it is
\* longer than three chunk sizes, is exploded into pieces that each open with
\* the original fence line and close with a fence; also when the block holds
\* a line that starts with two marks. As stated this does not hold.
C18AsStated ==
    cpc = "done" =>
        \A j \in DOMAIN cdocs :
            LET mine == ChunksOf(cdocs[j])
                blocks == FencedBlocksOf(cdocs[j])
            IN  /\ \A i \in DOMAIN mine : FenceCount(mine[i].content, 0) % 2 = 0
                /\ \A b \in DOMAIN blocks :
                      IF Len(blocks[b]) <= CODE_BLOCK_SPLIT_THRESHOLD * cconf.chunkSize
                      THEN \E i \in DOMAIN mine : StrIncludes(mine[i].content, blocks[b])
                      ELSE \A i \in DOMAIN mine : WrappedIn(mine[i].content, blocks[b])

\* ---------------------------------------------------------------------------
\* Session pool: the sweeper and active sessions
\* ---------------------------------------------------------------------------

\* the handler has just taken a request that carries the id of a live session
ForwardedNow ==
    /\ req = NoRequest /\ req' # NoRequest
    /\ Route(req'.product, req'.header, req'.body) = "forward"

\* the cleanup timer has just fired
Swept == nextSweep' # nextSweep

\* C19: a request carrying a valid session id sets the entry's lastActivity
\* to the current time (the entry is gone only if the request closed the
\* session); a sweep removes only entries idle for more than 30 minutes; so a
\* session that received a request within the last 30 minutes is in the map,
\* unchanged, after the sweep.
C19SweeperKeepsActiveSessions ==
    [][/\ ForwardedNow =>
            LET p == req'.product
                sid == req'.header[1]
            IN  IF sid \in DOMAIN sessions'[p]
                THEN sessions'[p][sid].lastActivity = now
                ELSE req'.method = "DELETE" /\ req'.ok
       /\ Swept =>
            \A p \in Products : \A sid \in DOMAIN sessions[p] :
                /\ sid \notin DOMAIN sessions'[p] =>
                        now - sessions[p][sid].lastActivity > SESSION_TTL_MS
                /\ (/\ sid \in DOMAIN lastRequestAt[p]
                    /\ now - lastRequestAt[p][sid] <= SESSION_TTL_MS) =>
                        /\ sid \in DOMAIN sessions'[p]
                        /\ sessions'[p][sid] = sessions[p][sid]]_vars

\* a sweep has just reaped the younger session 2 while the older session 1,
\* which received a request in the last 30 minutes, is still in its map
C19Witness ==
    /\ nextSweep = now + SESSION_CLEANUP_INTERVAL_MS
    /\ req = NoRequest
    /\ SessionIdOf(2) \in expiredLog
    /\ \E p \in Products :
          /\ SessionIdOf(1) \in DOMAIN sessions[p]
          /\ SessionIdOf(1) \in DOMAIN lastRequestAt[p]
          /\ now - lastRequestAt[p][SessionIdOf(1)] <= SESSION_TTL_MS
          /\ now - lastRequestAt[p][SessionIdOf(1)] > 0

\* ---------------------------------------------------------------------------
\* Rate limiter: checkAndRecord
\* ---------------------------------------------------------------------------

\* C20: checkAndRecord checks and records in one step, no other call in
\* between: an entry is recorded only by a call whose check passed in the
\* very state the entry is added to. So, with callers that use checkAndRecord
\* only, the requests recorded within the current window never exceed
\* requestsPerMinute and the tokens recorded within it never exceed
\* tokensPerMinute.
C20CheckAndRecordAtomic ==
    /\ [](/\ Cardinality(InWindow(clock)) <= rpmLimit
          /\ TokensOf(InWindow(clock)) <= tpmLimit)
    /\ [][history' # history =>
            /\ call = NoCall
            /\ call'.op = "checkAndRecord"
            /\ Throws(call'.tokens, clock) = "none"
            /\ history' = Append(history, [timestamp |-> clock, weight |-> call'.tokens])]_vars

\* both ceilings are reached within the window and the next checkAndRecord
\* is refused
C20Witness ==
    /\ call.op = "checkAndRecord"
    /\ call.error = "RateLimitError"
    /\ rpmLimit = MaxRpmLimit
    /\ Cardinality(InWindow(clock)) = rpmLimit
    /\ TokensOf(InWindow(clock)) = tpmLimit

\* ---------------------------------------------------------------------------
\* Embedder: the limiter before the network
\* ---------------------------------------------------------------------------

\* an attempt starts with the limiter refusing the batch
Refused == epc = "try" /\ Throws(totalTokens, clock) # "none"

\* C21: every call of client.embed, retries included, comes in the same step
\* as its own successful checkAndRecord(totalTokens) and every entry recorded
\* belongs to one network call; an attempt the limiter refuses makes no
\* network call and records nothing; a refusal of the last attempt reaches
\* the caller as the limiter's RateLimitError with its retryAfter, not as an
\* ApiError.
C21LimiterBeforeNetwork ==
    /\ [][netCalls' = netCalls + 1 =>
            /\ epc = "try"
            /\ Throws(totalTokens, clock) = "none"
            /\ history' = Append(history, [timestamp |-> clock, weight |-> totalTokens])]_vars
    /\ [][history' # history => netCalls' = netCalls + 1]_vars
    /\ [][Refused =>
            /\ netCalls' = netCalls
            /\ history' = history
            /\ lastError'.name = "RateLimitError"
            /\ epc' \in {"sleep", "thrown"}]_vars
    /\ [][(Refused /\ attempt = maxRetries) =>
            /\ epc' = "thrown"
            /\ thrown'.name = "RateLimitError"
            /\ thrown'.retryAfter = ThrownByLimiter.retryAfter]_vars

\* the limiter has refused the third attempt of a batch and the caller holds
\* a RateLimitError with a positive retryAfter; one earlier attempt of the
\* batch had reached the network
C21Witness ==
    /\ epc = "thrown" /\ attempt = maxRetries
    /\ thrown.name = "RateLimitError"
    /\ thrown.retryAfter > 0
    /\ netCalls = 1

\* ---------------------------------------------------------------------------
\* Embedder: which failures are retried
\* ---------------------------------------------------------------------------

\* failures of client.embed that are a network timeout, a connection reset,
\* an HTTP 5xx answer or the provider's rate-limit answer (HTTP 429)
Transient ==
    {"Request timeout", "read ECONNRESET", "Status code: 500", "Status code: 504",
     "Status code: 429"}

\* C22 as stated: a failed attempt whose error is a network timeout, a
\* connection reset, an HTTP 5xx answer or an HTTP 429 answer of the provider
\* is followed, while attempts remain, by the backoff sleep and not by a
\* throw. This does not hold for the answers 429 and 504.
C22AsStated ==
    [][(AttemptFailed /\ lastError'.name = "Error" /\ lastError'.text \in Transient
            /\ attempt < maxRetries)
        => epc' = "sleep" /\ thrown' = NoError]_vars

\* failures of client.embed that no retry can cure: a bad request, a failed
\* authentication, a failed validation
Permanent == {"Status code: 400", "Status code: 401", "Status code: 422"}

\* C23 as stated: a failed attempt whose error is an authentication error, a
\* bad request, a validation failure or a vector of the wrong length, whatever
\* the expected and the received length are, is never retried: the error
\* reaches the caller at once, as an ApiError, with no backoff sleep. This
\* does not hold for a length whose digits spell 500, 502, 503 or 529.
C23AsStated ==
    [][(AttemptFailed /\ lastError'.name = "Error"
            /\ lastError'.text \in Permanent \cup {MismatchText})
        => /\ epc' = "thrown"
           /\ thrown'.name = "ApiError"
           /\ sleeps' = sleeps]_vars

\* ---------------------------------------------------------------------------
\* Embedder: dynamic batching
\* ---------------------------------------------------------------------------

RECURSIVE Flatten(_)
Flatten(seqs) == IF seqs = <<>> THEN <<>> ELSE Head(seqs) \o Flatten(Tail(seqs))

RECURSIVE TokensIn(_)
TokensIn(sent) ==
    IF sent = <<>> THEN 0 ELSE estimateTokens(Head(sent)) + TokensIn(Tail(sent))

\* C24: the batches embedBatch sends are, in order, consecutive non-empty
\* pieces of its input; none holds more than batchSize texts, and one that
\* holds more than one text is estimated at no more than 60,000 tokens; when
\* embedBatch returns, the batches sent are the whole input and the results
\* are one per text, in the order of the texts.
C24DynamicBatching ==
    /\ Len(Flatten(sentBatches)) <= Len(texts)
    /\ \A i \in 1 .. Len(Flatten(sentBatches)) : Flatten(sentBatches)[i] = texts[i]
    /\ bpc = "loop" => Flatten(sentBatches) \o batch = SubSeq(texts, 1, nextText)
    /\ \A b \in 1 .. Len(sentBatches) :
        /\ sentBatches[b] # <<>>
        /\ Len(sentBatches[b]) <= embedBatchSize
        /\ Len(sentBatches[b]) > 1 => TokensIn(sentBatches[b]) <= MAX_BATCH_TOKENS
    /\ bpc = "returned" =>
        /\ Flatten(sentBatches) = texts
        /\ Len(allResults) = Len(texts)
        /\ \A i \in 1 .. Len(texts) :
            /\ allResults[i].text = texts[i]
            /\ allResults[i].tokens = estimateTokens(texts[i])

\* embedBatch has returned after sending a batch closed by the token budget,
\* a batch closed by the batch size, and a text of more than 60,000 tokens
\* on its own
C24Witness ==
    /\ bpc = "returned"
    /\ Len(texts) = MaxTexts
    /\ \E b \in 1 .. Len(sentBatches) :
        Len(sentBatches[b]) = 1 /\ TokensIn(sentBatches[b]) > MAX_BATCH_TOKENS
    /\ \E b \in 1 .. Len(sentBatches) :
        /\ Len(sentBatches[b]) > 1
        /\ Len(sentBatches[b]) < embedBatchSize
        /\ TokensIn(sentBatches[b]) = MAX_BATCH_TOKENS

\* ---------------------------------------------------------------------------
\* Indexer: what a checkpoint stands for
\* ---------------------------------------------------------------------------

\* indexChunks is running
InIndexChunks == ipc \in {"loadCheckpoint", "loop", "upsert", "save"}

\* the chunk has a point in the collection
Stored(c) ==
    /\ collection.exists
    /\ \E u \in DOMAIN collection.points : collection.points[u] = c

\* the chunk id is the last of a batch of the chunk list
EndsBatch(cp) ==
    \E k \in 1 .. NumChunks :
        ChunkList[k] = cp /\ (k % batchSize = 0 \/ k = NumChunks)

\* C25 as stated, for a checkpoint that names a chunk of the list: while
\* indexChunks runs, the checkpoint names the last chunk of a batch and every
\* chunk at or before it has its point in the collection. This does not hold
\* in a run started with force after a run that left a checkpoint.
C25AsStated ==
    (InIndexChunks /\ checkpoint \in ChunkIds) =>
        /\ EndsBatch(checkpoint)
        /\ \A c \in Acknowledged(checkpoint) : Stored(c)

C27AsStated == ipc = "done" => \A c \in ChunkIds : Stored(c)

\* ---------------------------------------------------------------------------
\* Vector store: the retries of an upsert
\* ---------------------------------------------------------------------------

\* an attempt of the upsert in progress has just failed
UpsertAttemptFailed == ipc = "upsert" /\ ipc' \notin {"save", "killed"}

\* C29: an upsert is attempted at most 3 times; after the failure of attempt
\* n < 3 the client waits n seconds and tries the same points again; an
\* acknowledged attempt ends the retries; the failure of attempt 3 ends the
\* run as failed, with the collection, the checkpoint and the position in
\* the chunk list left as they were.
C29UpsertRetry ==
    /\ [](/\ upAttempt <= 3
          /\ ipc = "upsert" => upAttempt >= 1 /\ Len(delays) = upAttempt - 1
          /\ \A n \in 1 .. Len(delays) : delays[n] = 1000 * n)
    /\ [][(UpsertAttemptFailed /\ upAttempt < 3) =>
            /\ ipc' = "upsert"
            /\ upAttempt' = upAttempt + 1
            /\ delays' = Append(delays, 1000 * upAttempt)
            /\ UNCHANGED <<idx, batchSize, collection, checkpoint, failedCount>>]_vars
    /\ [][(UpsertAttemptFailed /\ upAttempt >= 3) =>
            /\ ipc' = "failed"
            /\ failedCount' = failedCount + Cardinality(BatchIds(idx))
            /\ UNCHANGED <<idx, collection, checkpoint, successCount, delays>>]_vars
    /\ [][(ipc = "upsert" /\ ipc' = "save") =>
            /\ \A c \in BatchIds(idx) : Stored(c)'
            /\ UNCHANGED <<upAttempt, delays, idx, checkpoint>>]_vars

\* the upsert of a later batch has failed three times, after waits of 1 s
\* and 2 s; the checkpoint still names the last chunk of the batch before
C29Witness ==
    /\ ipc = "failed" /\ upAttempt = 3
    /\ delays = <<1000, 2000>>
    /\ idx > 0 /\ checkpoint = ChunkList[idx]
    /\ \A c \in BatchIds(idx) : ~Stored(c) /\ embedded[c] = 1

\* ---------------------------------------------------------------------------
\* Rate limiter: what a refused call leaves behind
\* ---------------------------------------------------------------------------

\* check or checkAndRecord has just thrown RateLimitError
Rejected == call = NoCall /\ call'.error = "RateLimitError"

\* C28: a check or checkAndRecord that throws RateLimitError records
\* nothing: no entry is added to either window, and the entries it removes
\* are those that had left the window by the time it looked, so what either
\* window counts from then on is what it would have counted without the call.
C28RejectedRecordsNothing ==
    [][Rejected =>
        /\ call'.op \in {"check", "checkAndRecord"}
        /\ history' = history
        /\ rpm' \in {cleanup(rpm, clock), cleanup(rpm, call'.t2)}
        /\ tpm' \in {cleanup(tpm, clock), cleanup(tpm, call'.t2)}
        /\ cleanup(rpm', clock') = cleanup(rpm, clock')
        /\ cleanup(tpm', clock') = cleanup(tpm, clock')
        /\ \A i \in InWindow(clock') :
              /\ \E j \in DOMAIN tpm' : tpm'[j] = history[i]
              /\ \E j \in DOMAIN rpm' : rpm'[j].timestamp = history[i].timestamp]_vars

\* a checkAndRecord was refused on the token ceiling; an older entry has been
\* evicted from the windows and a newer one is still counted
C28Witness ==
    /\ call.op = "checkAndRecord" /\ call.error = "RateLimitError" /\ call.limit = "tpm"
    /\ Len(history) >= 2
    /\ tpm # <<>> /\ Len(tpm) < Len(history) /\ Len(rpm) = Len(tpm)
    /\ history[1].timestamp <= call.t2 - windowMs

\* ---------------------------------------------------------------------------
\* splitProtected: break points and URLs
\* ---------------------------------------------------------------------------

\* the 0-based position where the run of non-space characters around
\* position p of the text begins, and the position where it ends
RunStart(text, p) == SetMax({i \in 0 .. p : i = 0 \/ IsSpace(text[i])})

RunEnd(text, p) == SetMin({j \in p .. Len(text) : j = Len(text) \/ IsSpace(text[j + 1])})

\* a cut at position p falls inside a URL: between two characters of a run
\* of non-space characters that holds '://'
InsideUrl(text, p) ==
    /\ 0 < p /\ p < Len(text)
    /\ ~IsSpace(text[p]) /\ ~IsSpace(text[p + 1])
    /\ StrIncludes(StrSlice(text, RunStart(text, p), RunEnd(text, p)), <<":", "/", "/">>)

\* a cut at position p comes right after a '.' that a letter or digit follows
AfterInnerDot(text, p) ==
    /\ 0 < p /\ p < Len(text)
    /\ text[p] = "."
    /\ IsWord(text[p + 1]) /\ text[p + 1] # "_"

\* C30 as stated: no cut position chosen by findBreakPoint comes right after
\* a '.' followed by a letter or digit, and none falls inside a URL, the hard
\* cut at maxPos included. This does not hold for the hard cut.
C30AsStated ==
    \A i \in DOMAIN cuts :
        /\ ~AfterInnerDot(cuts[i].text, cuts[i].cutPoint)
        /\ ~InsideUrl(cuts[i].text, cuts[i].cutPoint)
====
